---- MODULE Spec2Model ----
(***************************************************************************)
(* Bluff Battle: the rule engine of a two-player Rock/Paper/Scissors card  *)
(* game with declared (possibly false) card types.                         *)
(*                                                                         *)
(* The module holds one state (the object graph of a Game: cards, players, *)
(* the grid, the battle system and the challenge system) and several       *)
(* specifications over it, one per component:                              *)
(*   SpecOutcome    BattleSystem.determineBattleOutcome on two cards       *)
(*   SpecBattle     one BattleSystem.resolveAllBattles pass over a grid    *)
(*   SpecChallenge  the ChallengeSystem protocol (register, challenge,     *)
(*                  window expiry, clear)                                  *)
(* A specification leaves the variables of the other components at their   *)
(* constructor values.                                                     *)
(***************************************************************************)
EXTENDS Integers, Sequences, FiniteSets, TLC

VARIABLES
    cards,            \* heap of Card objects: card id -> fields (Card.js 13-20)
    players,          \* heap of Player objects: player id -> score, stats
    grid,             \* GridSystem.grid: position -> card id, or NoCard
    positionStates,   \* GridSystem.positionStates
    changeHistory,    \* GridSystem.changeHistory
    isProcessing,     \* BattleSystem.isProcessing
    battleQueue,      \* BattleSystem.battleQueue
    battleResults,    \* BattleSystem.battleResults
    battlePc,         \* where resolveAllBattles is suspended
    battleIndex,      \* loop variable i of resolveAllBattles
    lastPlayedCard,   \* ChallengeSystem.lastPlayedCard
    challengeTimer,   \* ChallengeSystem.challengeTimer (handle, or NoTimer)
    pendingTimers,    \* timers scheduled with setTimeout, not yet fired/cleared
    timerSeq,         \* last timer handle handed out by setTimeout
    windowClosedEmitted, \* CHALLENGE_WINDOW_CLOSED events emitted so far
    scoreHistory,     \* ScoreSystem.scoreHistory
    snapshot,         \* the scores read when the observation began
    achievements,     \* ScoreSystem.achievements: player id -> unlocked ids
    unlockedEvents,   \* achievement_unlocked events since ScoreSystem.reset
    challengeHistory, \* ChallengeSystem.challengeHistory
    game,             \* the Game object and where its asynchronous flow stands
    stateManager,     \* the GameState object, with what its listener was told
    reentrantPasses,  \* loop variables of further suspended resolveAllBattles
    selection,        \* Game.selectedCard, selectedPosition, pendingClaim
    errorHandling,    \* the calls of Game.handleGameError on the stack
    aiPlayer,         \* the AIPlayer object: strategy, traits, memory, history
    earlierMatch,     \* the continuation an earlier match left pending
    ret               \* value returned by the last call

vars == << cards, players, grid, positionStates, changeHistory, isProcessing, battleQueue, battleResults,
           battlePc, battleIndex, lastPlayedCard, challengeTimer,
           pendingTimers, timerSeq, windowClosedEmitted, challengeHistory,
           scoreHistory, snapshot, achievements, unlockedEvents, game,
           stateManager, reentrantPasses,
           selection, errorHandling, aiPlayer, earlierMatch, ret >>

-----------------------------------------------------------------------------
(* Constants.js *)

CARD_TYPES == {"rock", "paper", "scissors"}

CARD_INFO ==
    [t \in CARD_TYPES |->
        CASE t = "rock"     -> [defeats |-> "scissors", defeatedBy |-> "paper"]
          [] t = "paper"    -> [defeats |-> "rock",     defeatedBy |-> "scissors"]
          [] t = "scissors" -> [defeats |-> "paper",    defeatedBy |-> "rock"]]

GRID_WIDTH == 5
GRID_HEIGHT == 3
TOTAL_POSITIONS == 15

ADVANCEMENT == 1
CONTROL == 1
BATTLE_WIN == 1
CHALLENGE_PENALTY == 1
VICTORY_POINTS == 10
MIN_VICTORY_LEAD == 1

PLAYER_TYPES == {"human", "ai"}

\* Game.initializeGame creates exactly two players, with ids "human" and "ai".
PlayerIds == {"human", "ai"}

CHALLENGE_RESULTS ==
    [SUCCESSFUL |-> "successful", FAILED |-> "failed", TRUTHFUL |-> "truthful"]

POSITION_STATES ==
    [EMPTY |-> "empty", OCCUPIED |-> "occupied", SELECTED |-> "selected",
     HIGHLIGHTED |-> "highlighted"]

CARD_STATES ==
    [IN_HAND |-> "in_hand", SELECTED |-> "selected",
     PLACED |-> "placed", REVEALED |-> "revealed"]

GAME_STATES ==
    [MENU |-> "menu", LOADING |-> "loading", PLAYING |-> "playing",
     PAUSED |-> "paused", ROUND_END |-> "round_end",
     GAME_OVER |-> "game_over", TUTORIAL |-> "tutorial"]

\* Object.values(GAME_STATES)
GameStateValues == {GAME_STATES[k] : k \in DOMAIN GAME_STATES}

TURN_PHASES ==
    [SETUP |-> "setup", PLACEMENT |-> "placement", BATTLE |-> "battle",
     SCORING |-> "scoring"]

BATTLE_RESULTS == [WIN |-> "win", LOSE |-> "lose", ADVANCE |-> "advance"]

-----------------------------------------------------------------------------
(* Bounds of the model *)

\* Card objects in the heap (a hand holds CARDS_PER_HAND = 5 in the game).
MaxCards == 2

\* Scores the players may bring into the challenge protocol from earlier
\* rounds: 0 .. MaxInitScore.
MaxInitScore == 2

\* A grid is changed by placeCard and removeCard at most MaxGridChanges times
\* between two clears.
MaxGridChanges == 2

\* awardPoints and deductPoints are called with 0 .. MaxPoints points, at most
\* MaxScoreCalls times; a player's truthful play is challenged at most
\* MaxScoreCalls times.
MaxPoints == 1
MaxScoreCalls == 1

\* The CHALLENGE_WINDOW_CLOSED events are counted up to MaxNotifications.
MaxNotifications == 2

CardIds == 1 .. MaxCards
Positions == 0 .. (TOTAL_POSITIONS - 1)

\* null, where a string, a card, a position or a timer handle is expected
Null == "null"
NoCard == 0
NoPosition == -1
NoTimer == 0

Max(a, b) == IF a >= b THEN a ELSE b

-----------------------------------------------------------------------------
(* Card.js *)

\* new Card(type), then Player.dealCards sets the owner.
Card(type, owner) ==
    [type |-> type, state |-> CARD_STATES.IN_HAND, claimedType |-> Null,
     owner |-> owner, position |-> NoPosition, isRevealed |-> FALSE,
     battleHistory |-> << >>]

\* Card.setClaim; an invalid claimed type throws and leaves the card as it is.
setClaim(card, claimedType) ==
    IF claimedType \notin CARD_TYPES
    THEN card
    ELSE [card EXCEPT !.claimedType = claimedType]

\* Card.place
place(card, position) ==
    IF position < 0 \/ position >= TOTAL_POSITIONS
    THEN card
    ELSE [card EXCEPT !.position = position, !.state = CARD_STATES.PLACED]

\* Card.reveal
reveal(card) ==
    [card EXCEPT !.isRevealed = TRUE, !.state = CARD_STATES.REVEALED]

\* Card.isBluffing
isBluffing(card) ==
    card.claimedType # Null /\ card.claimedType # card.type

-----------------------------------------------------------------------------
(* Player *)

\* The payload of the SCORE_UPDATE event a player's addScore emitted last.
NoScoreUpdate == [oldScore |-> 0, newScore |-> 0, pointsAdded |-> 0]

\* new Player(id, name, type): score 0, an empty hand (the cards it holds,
\* in no order), no selected card, no placed card, zeroed statistics, an
\* empty window of recent actions (behaviorProfile.recentActions, by action
\* type).
Player ==
    [score |-> 0,
     hand |-> {},
     selectedCard |-> NoCard,
     placedCards |-> << >>,
     stats |-> [cardsPlayed |-> 0, bluffsAttempted |-> 0,
                challengesSuccessful |-> 0, truthfulPlays |-> 0,
                battlesWon |-> 0, battlesLost |-> 0, totalPoints |-> 0],
     recentActions |-> << >>,
     scoreUpdate |-> NoScoreUpdate]

\* Player.addScore without the clamp at 0.
addScoreUnclamped(pl, p, points) ==
    [pl EXCEPT ![p].score = @ + points,
               ![p].stats.totalPoints = IF points > 0 THEN @ + points ELSE @,
               ![p].scoreUpdate =
                   [oldScore |-> pl[p].score,
                    newScore |-> pl[p].score + points,
                    pointsAdded |-> points]]

\* Player.addScore on player p of the heap pl: the score is clamped at 0,
\* positive points are accumulated in stats.totalPoints, SCORE_UPDATE is
\* emitted.
addScore(pl, p, points) ==
    [pl EXCEPT ![p].score = Max(0, @ + points),
               ![p].stats.totalPoints = IF points > 0 THEN @ + points ELSE @,
               ![p].scoreUpdate =
                   [oldScore |-> pl[p].score,
                    newScore |-> Max(0, pl[p].score + points),
                    pointsAdded |-> points]]

\* The window of recent actions keeps the last RECENT_ACTIONS entries.
RECENT_ACTIONS == 20

\* Player.updateBehaviorProfile: the action joins the window of recent
\* actions (the frequencies and preferences derived from it are left out).
updateBehaviorProfile(pl, p, actionType) ==
    [pl EXCEPT ![p].recentActions =
        IF Len(@) + 1 > RECENT_ACTIONS
        THEN Tail(Append(@, actionType))
        ELSE Append(@, actionType)]

\* Player.playCard leaving the played card in the hand.
playCardKeepingHand(st, p, card, position, claimedType) ==
    LET played == place(setClaim(st.cards[card], claimedType), position)
        counted == [st.players EXCEPT
                       ![p].placedCards = Append(@, card),
                       ![p].selectedCard = NoCard,
                       ![p].stats.cardsPlayed = @ + 1,
                       ![p].stats.bluffsAttempted =
                           IF isBluffing(played) THEN @ + 1 ELSE @]
    IN  [players |-> updateBehaviorProfile(counted, p, "cardPlayed"),
         cards |-> [st.cards EXCEPT ![card] = played]]

\* Player.playCard on the heaps st.players and st.cards (the caller has
\* validated the play): the card leaves the hand with its claim and position.
playCard(st, p, card, position, claimedType) ==
    LET played == place(setClaim(st.cards[card], claimedType), position)
        counted == [st.players EXCEPT
                       ![p].hand = @ \ {card},
                       ![p].placedCards = Append(@, card),
                       ![p].selectedCard = NoCard,
                       ![p].stats.cardsPlayed = @ + 1,
                       ![p].stats.bluffsAttempted =
                           IF isBluffing(played) THEN @ + 1 ELSE @]
    IN  [players |-> updateBehaviorProfile(counted, p, "cardPlayed"),
         cards |-> [st.cards EXCEPT ![card] = played]]

\* Player.dealCards on the heaps st.players and st.cards: every dealt card
\* gets its owner and the state in_hand (its position is left as it is), the
\* hand is replaced, the selection dropped.
dealCards(st, p, dealt) ==
    [players |-> [st.players EXCEPT ![p].hand = dealt,
                                    ![p].selectedCard = NoCard],
     cards |-> [c \in DOMAIN st.cards |->
                   IF c \in dealt
                   THEN [st.cards[c] EXCEPT !.owner = p,
                                            !.state = CARD_STATES.IN_HAND]
                   ELSE st.cards[c]]]

\* Player.selectCard without the search in the hand: any card is selected.
selectCardAnywhere(st, p, card) ==
    LET previous == st.players[p].selectedCard
        deselected == IF previous # NoCard
                      THEN [st.cards EXCEPT
                               ![previous].state = CARD_STATES.IN_HAND]
                      ELSE st.cards
    IN  [players |-> [st.players EXCEPT ![p].selectedCard = card],
         cards |-> [deselected EXCEPT ![card].state = CARD_STATES.SELECTED],
         selected |-> card]

\* Player.selectCard by card id: a card that is not in the hand is not found
\* and null is returned; otherwise the previous selection goes back to
\* in_hand and the card becomes the selected one.
selectCard(st, p, card) ==
    IF card \notin st.players[p].hand
    THEN [players |-> st.players, cards |-> st.cards, selected |-> NoCard]
    ELSE LET previous == st.players[p].selectedCard
             deselected == IF previous # NoCard
                           THEN [st.cards EXCEPT
                                    ![previous].state = CARD_STATES.IN_HAND]
                           ELSE st.cards
         IN  [players |-> [st.players EXCEPT ![p].selectedCard = card],
              cards |-> [deselected EXCEPT
                            ![card].state = CARD_STATES.SELECTED],
              selected |-> card]

\* Player.deselectCard
deselectCard(st, p) ==
    LET previous == st.players[p].selectedCard
    IN  IF previous # NoCard
        THEN [players |-> [st.players EXCEPT ![p].selectedCard = NoCard],
              cards |-> [st.cards EXCEPT
                            ![previous].state = CARD_STATES.IN_HAND]]
        ELSE [players |-> st.players, cards |-> st.cards]

\* Player.canMove
canMove(pl, p) == pl[p].hand # {}

\* Player.resetForNewRound
resetForNewRound(pl, p) ==
    [pl EXCEPT ![p].hand = {}, ![p].placedCards = << >>,
               ![p].selectedCard = NoCard]

-----------------------------------------------------------------------------
(* GridSystem.js: a GRID_WIDTH x GRID_HEIGHT grid, row-major *)

\* What a call evaluates to when the code throws.
Thrown == [thrown |-> TRUE]

\* The test of coordsToPosition that throws "Invalid coordinates".
invalidCoordinates(row, col) ==
    row < 0 \/ row >= GRID_HEIGHT \/ col < 0 \/ col >= GRID_WIDTH

\* coordsToPosition counting by columns: row + col * height.
coordsToPositionByColumns(row, col) ==
    IF invalidCoordinates(row, col)
    THEN Thrown
    ELSE row + col * GRID_HEIGHT

coordsToPosition(row, col) ==
    IF invalidCoordinates(row, col)
    THEN Thrown
    ELSE row * GRID_WIDTH + col

positionToCoords(position) ==
    IF position < 0 \/ position >= TOTAL_POSITIONS
    THEN Thrown
    ELSE [row |-> position \div GRID_WIDTH, col |-> position % GRID_WIDTH]

\* isPositionAvailable without the test that the slot is empty.
isPositionInRange(position) ==
    /\ position >= 0
    /\ position < TOTAL_POSITIONS

isPositionAvailable(position) ==
    /\ position >= 0
    /\ position < TOTAL_POSITIONS
    /\ grid[position] = NoCard

isPositionOccupied(position) ==
    /\ position >= 0
    /\ position < TOTAL_POSITIONS
    /\ grid[position] # NoCard

\* recordChange keeps the last CHANGE_HISTORY_LIMIT changes.
CHANGE_HISTORY_LIMIT == 100

\* recordChange(action, position, card) on the history h.
recordChange(h, action, position, card) ==
    LET pushed == Append(h, [action |-> action, position |-> position,
                             cardId |-> card])
    IN  IF Len(pushed) > CHANGE_HISTORY_LIMIT THEN Tail(pushed) ELSE pushed

\* What placeCard does to the grid once the position is found available.
gridPlaced(card, position) ==
    /\ grid' = [grid EXCEPT ![position] = card]
    /\ positionStates' =
          [positionStates EXCEPT ![position] = POSITION_STATES.OCCUPIED]
    /\ changeHistory' = recordChange(changeHistory, "place", position, card)

\* placeCard(card, position): throws unless the position is available;
\* otherwise stores the card, marks the position and calls card.place.
placeCard(card, position) ==
    IF ~isPositionAvailable(position)
    THEN /\ ret' = [op |-> "placeCard", card |-> card,
                    position |-> position, thrown |-> TRUE]
         /\ UNCHANGED << cards, grid, positionStates, changeHistory >>
    ELSE /\ gridPlaced(card, position)
         /\ cards' = [cards EXCEPT ![card] = place(@, position)]
         /\ ret' = [op |-> "placeCard", card |-> card,
                    position |-> position, thrown |-> FALSE]

\* removeCard(position): throws on a position outside the grid; otherwise
\* empties the slot, the removed card keeping its own fields, and returns
\* what the slot held.
removeCard(position) ==
    IF position < 0 \/ position >= TOTAL_POSITIONS
    THEN /\ ret' = [op |-> "removeCard", card |-> NoCard,
                    position |-> position, thrown |-> TRUE]
         /\ UNCHANGED << grid, positionStates, changeHistory >>
    ELSE /\ ret' = [op |-> "removeCard", card |-> grid[position],
                    position |-> position, thrown |-> FALSE]
         /\ IF grid[position] # NoCard
            THEN /\ grid' = [grid EXCEPT ![position] = NoCard]
                 /\ positionStates' =
                       [positionStates EXCEPT
                           ![position] = POSITION_STATES.EMPTY]
                 /\ changeHistory' =
                       recordChange(changeHistory, "remove", position,
                                    grid[position])
            ELSE UNCHANGED << grid, positionStates, changeHistory >>

\* GridSystem.clear
clearGrid ==
    /\ grid' = [p \in Positions |-> NoCard]
    /\ positionStates' = [p \in Positions |-> POSITION_STATES.EMPTY]
    /\ changeHistory' = << >>

getCardAt(position) ==
    IF position < 0 \/ position >= TOTAL_POSITIONS
    THEN NoCard
    ELSE grid[position]

\* getAllCards: the occupied slots in ascending position order.
RECURSIVE getAllCardsFrom(_)
getAllCardsFrom(i) ==
    IF i >= TOTAL_POSITIONS
    THEN << >>
    ELSE (IF grid[i] # NoCard
          THEN << [card |-> grid[i], position |-> i] >>
          ELSE << >>) \o getAllCardsFrom(i + 1)

getAllCards == getAllCardsFrom(0)

\* The 4-directional vectors of getAdjacentPositions, in the code's order.
directions == << <<-1, 0>>, <<0, -1>>, <<0, 1>>, <<1, 0>> >>

RECURSIVE adjacentFrom(_, _)
adjacentFrom(coords, d) ==
    IF d > Len(directions)
    THEN << >>
    ELSE LET newRow == coords.row + directions[d][1]
             newCol == coords.col + directions[d][2]
         IN  (IF /\ newRow >= 0
                 /\ newRow < GRID_HEIGHT
                 /\ newCol >= 0
                 /\ newCol < GRID_WIDTH
              THEN << coordsToPosition(newRow, newCol) >>
              ELSE << >>) \o adjacentFrom(coords, d + 1)

getAdjacentPositions(position) ==
    IF position < 0 \/ position >= TOTAL_POSITIONS
    THEN << >>
    ELSE adjacentFrom(positionToCoords(position), 1)

getHorizontalNeighbors(position) ==
    LET coords == positionToCoords(position)
    IN  [left  |-> IF coords.col > 0
                   THEN coordsToPosition(coords.row, coords.col - 1)
                   ELSE NoPosition,
         right |-> IF coords.col < GRID_WIDTH - 1
                   THEN coordsToPosition(coords.row, coords.col + 1)
                   ELSE NoPosition]

\* getBattlePairs' loop body without the test of the rows.
getBattlePairAtAnyRow(position) ==
    LET currentCard == getCardAt(position)
        nextCard == getCardAt(position + 1)
    IN  IF currentCard # NoCard /\ nextCard # NoCard
        THEN << [position1 |-> position, card1 |-> currentCard,
                 position2 |-> position + 1, card2 |-> nextCard] >>
        ELSE << >>

\* The body of getBattlePairs' loop for one position: the coordinates are
\* computed first, the four conditions are tested together.
getBattlePairAt(position) ==
    LET currentCard == getCardAt(position)
        nextCard == getCardAt(position + 1)
        currentCoords == positionToCoords(position)
        nextCoords == positionToCoords(position + 1)
    IN  IF /\ currentCard # NoCard
           /\ nextCard # NoCard
           /\ currentCoords.row = nextCoords.row
           /\ nextCoords.col = currentCoords.col + 1
        THEN << [position1 |-> position, card1 |-> currentCard,
                 position2 |-> position + 1, card2 |-> nextCard] >>
        ELSE << >>

RECURSIVE getBattlePairsFrom(_)
getBattlePairsFrom(position) ==
    IF position >= TOTAL_POSITIONS - 1
    THEN << >>
    ELSE getBattlePairAt(position) \o getBattlePairsFrom(position + 1)

getBattlePairs == getBattlePairsFrom(0)

-----------------------------------------------------------------------------
(* BattleSystem.js *)

\* identifyBattles pairing the cards of different owners only.
RECURSIVE identifyBattlesOpposingFrom(_)
identifyBattlesOpposingFrom(position) ==
    IF position >= TOTAL_POSITIONS - 1
    THEN << >>
    ELSE LET card1 == getCardAt(position)
             card2 == getCardAt(position + 1)
             found ==
                 IF /\ card1 # NoCard /\ card2 # NoCard
                    /\ cards[card1].owner # cards[card2].owner
                 THEN getBattlePairAt(position)
                 ELSE << >>
         IN  found \o identifyBattlesOpposingFrom(position + 1)

identifyBattlesOpposing == identifyBattlesOpposingFrom(0)

\* identifyBattles: the occupancy is tested first, the coordinates after.
RECURSIVE identifyBattlesFrom(_)
identifyBattlesFrom(position) ==
    IF position >= TOTAL_POSITIONS - 1
    THEN << >>
    ELSE LET card1 == getCardAt(position)
             card2 == getCardAt(position + 1)
             found ==
                 IF card1 # NoCard /\ card2 # NoCard
                 THEN LET coords1 == positionToCoords(position)
                          coords2 == positionToCoords(position + 1)
                      IN  IF /\ coords1.row = coords2.row
                             /\ coords2.col = coords1.col + 1
                          THEN << [position1 |-> position, card1 |-> card1,
                                   position2 |-> position + 1,
                                   card2 |-> card2] >>
                          ELSE << >>
                 ELSE << >>
         IN  found \o identifyBattlesFrom(position + 1)

identifyBattles == identifyBattlesFrom(0)

\* determineBattleOutcome reading the declared types where there are any.
determineBattleOutcomeByClaim(card1, card2) ==
    LET type1 == IF card1.claimedType # Null
                 THEN card1.claimedType ELSE card1.type
        type2 == IF card2.claimedType # Null
                 THEN card2.claimedType ELSE card2.type
    IN  IF type1 = type2
        THEN "tie"
        ELSE IF CARD_INFO[type1].defeats = type2
             THEN "card1_wins"
             ELSE "card2_wins"

\* determineBattleOutcome on two Card objects (the explanation text is left out).
determineBattleOutcome(card1, card2) ==
    LET type1 == card1.type
        type2 == card2.type
    IN  IF type1 = type2
        THEN "tie"
        ELSE IF CARD_INFO[type1].defeats = type2
             THEN "card1_wins"
             ELSE "card2_wins"

\* The switch of processBattle with the winner of "card2_wins" mistaken.
battleWinnerSwapped(outcome, card1, card2) ==
    CASE outcome = "card1_wins" -> card1
      [] outcome = "card2_wins" -> card1
      [] OTHER -> NoCard

\* The switch of processBattle on the outcome: the winning card, if any.
battleWinner(outcome, card1, card2) ==
    CASE outcome = "card1_wins" -> card1
      [] outcome = "card2_wins" -> card2
      [] OTHER -> NoCard

\* The switch of processBattle on the outcome: the losing card, if any.
battleLoser(outcome, card1, card2) ==
    CASE outcome = "card1_wins" -> card2
      [] outcome = "card2_wins" -> card1
      [] OTHER -> NoCard

\* processBattle on the heaps st.players and st.cards: the winner's owner is
\* credited, both battle histories and the statistics are updated. Evaluates
\* to the new heaps and the result object.
processBattle(st, battle) ==
    LET card1 == battle.card1
        card2 == battle.card2
        outcome == determineBattleOutcome(st.cards[card1], st.cards[card2])
        winner == battleWinner(outcome, card1, card2)
        loser == battleLoser(outcome, card1, card2)
        points == IF winner # NoCard THEN BATTLE_WIN ELSE 0
        scored == IF winner # NoCard /\ st.cards[winner].owner # Null
                  THEN addScore(st.players, st.cards[winner].owner, points)
                  ELSE st.players
        battleRecord ==
            [opponent |-> IF loser # NoCard THEN loser ELSE card2,
             opponentType |-> IF loser # NoCard
                              THEN st.cards[loser].type
                              ELSE st.cards[card2].type,
             result |-> IF winner = card1 THEN BATTLE_RESULTS.WIN
                        ELSE IF winner = card2 THEN BATTLE_RESULTS.LOSE
                        ELSE "tie",
             position |-> battle.position1,
             opponentPosition |-> battle.position2]
        record2 ==
            [battleRecord EXCEPT
                !.opponent = card1,
                !.opponentType = st.cards[card1].type,
                !.result = IF winner = card2 THEN BATTLE_RESULTS.WIN
                           ELSE IF winner = card1 THEN BATTLE_RESULTS.LOSE
                           ELSE "tie",
                !.position = battle.position2,
                !.opponentPosition = battle.position1]
        cards1 == [st.cards EXCEPT
                      ![card1].battleHistory = Append(@, battleRecord)]
        cards2 == [cards1 EXCEPT
                      ![card2].battleHistory = Append(@, record2)]
        won == IF winner # NoCard /\ st.cards[winner].owner # Null
               THEN [scored EXCEPT
                        ![st.cards[winner].owner].stats.battlesWon = @ + 1]
               ELSE scored
        lost == IF loser # NoCard /\ st.cards[loser].owner # Null
                THEN [won EXCEPT
                         ![st.cards[loser].owner].stats.battlesLost = @ + 1]
                ELSE won
    IN  [players |-> lost,
         cards |-> cards2,
         result |-> [battle |-> battle, outcome |-> outcome,
                     winner |-> winner, loser |-> loser,
                     pointsAwarded |-> points]]

\* The control points of processCardAdvancement: CONTROL for each adjacent
\* position that holds a card of the same owner.
RECURSIVE controlPointsFrom(_, _, _)
controlPointsFrom(cd, card, adjacentPositions) ==
    IF adjacentPositions = << >>
    THEN 0
    ELSE LET adjCard == getCardAt(Head(adjacentPositions))
         IN  (IF adjCard # NoCard /\ cd[adjCard].owner = cd[card].owner
              THEN CONTROL
              ELSE 0) + controlPointsFrom(cd, card, Tail(adjacentPositions))

\* processCardAdvancement's points with position + 1 taken for the right-hand
\* neighbour, also at the end of a row.
advancementPointsNextSlot(cd, card, currentPosition) ==
    LET points == IF isPositionAvailable(currentPosition + 1)
                  THEN ADVANCEMENT
                  ELSE 0
        controlPoints ==
            controlPointsFrom(cd, card, getAdjacentPositions(currentPosition))
    IN  points + controlPoints

\* The totalPoints of processCardAdvancement for one card.
advancementPoints(cd, card, currentPosition) ==
    LET neighbors == getHorizontalNeighbors(currentPosition)
        points == IF /\ neighbors.right # NoPosition
                     /\ isPositionAvailable(neighbors.right)
                  THEN ADVANCEMENT
                  ELSE 0
        controlPoints ==
            controlPointsFrom(cd, card, getAdjacentPositions(currentPosition))
    IN  points + controlPoints

\* processCardAdvancement
processCardAdvancement(st, card, currentPosition) ==
    LET totalPoints == advancementPoints(st.cards, card, currentPosition)
    IN  IF totalPoints > 0 /\ st.cards[card].owner # Null
        THEN [st EXCEPT
                 !.players = addScore(@, st.cards[card].owner, totalPoints)]
        ELSE st

\* The positions of the battles of a queue.
battlingPositions(queue) ==
    {queue[i].position1 : i \in DOMAIN queue}
        \cup {queue[i].position2 : i \in DOMAIN queue}

\* processAdvancements: every card of the grid that is at no battling position.
RECURSIVE processAdvancementsFrom(_, _, _)
processAdvancementsFrom(st, queue, allCards) ==
    IF allCards = << >>
    THEN st
    ELSE LET entry == Head(allCards)
             next == IF entry.position \notin battlingPositions(queue)
                     THEN processCardAdvancement(st, entry.card, entry.position)
                     ELSE st
         IN  processAdvancementsFrom(next, queue, Tail(allCards))

processAdvancements(st, queue) == processAdvancementsFrom(st, queue, getAllCards)

-----------------------------------------------------------------------------
(* The state after construction (the constructors of Game, GridSystem,      *)
(* BattleSystem and ChallengeSystem)                                        *)

NoPlay == [card |-> NoCard]
NoReturn == [op |-> "none"]

GridConstructed ==
    /\ grid = [p \in Positions |-> NoCard]
    /\ positionStates = [p \in Positions |-> POSITION_STATES.EMPTY]
    /\ changeHistory = << >>

BattleConstructed ==
    /\ isProcessing = FALSE
    /\ battleQueue = << >>
    /\ battleResults = << >>
    /\ battlePc = "idle"
    /\ battleIndex = 0
    /\ reentrantPasses = << >>

ChallengeConstructed ==
    /\ lastPlayedCard = NoPlay
    /\ challengeTimer = NoTimer
    /\ pendingTimers = {}
    /\ timerSeq = 0
    /\ windowClosedEmitted = 0
    /\ challengeHistory = << >>

\* new ScoreSystem(): an empty history; no multiplier is ever added, the
\* repository never calling addMultiplier.
ScoreConstructed ==
    /\ scoreHistory = << >>
    /\ snapshot = [p \in PlayerIds |-> players[p].score]
    /\ achievements = [p \in PlayerIds |-> {}]
    /\ unlockedEvents = << >>

PlayersConstructed == players = [p \in PlayerIds |-> Player]

\* No data stored for a state.
NoStateData == [stored |-> FALSE, data |-> Null, forced |-> FALSE]

\* new GameState(): the menu, no previous state, no history, no state data;
\* one listener for every state is registered, and `notified` is what it was
\* told.
StateConstructed ==
    stateManager = [state |-> GAME_STATES.MENU,
                    previousState |-> Null,
                    stateHistory |-> << >>,
                    stateData |-> [s \in GameStateValues |-> NoStateData],
                    notified |-> << >>]

\* new Game(): no match loaded, nobody to move, nothing suspended (pc is the
\* place where the asynchronous flow of the game waits or goes on).
\* No call of handleGameError is on the stack, no error event was emitted.
NoError == [pc |-> "idle", depth |-> 0, emitted |-> 0, wasActive |-> FALSE]

\* Game.selectedCard, selectedPosition and pendingClaim, all null, and
\* whether handlePlayConfirmation is waiting for executePlay to return.
NoSelection ==
    [selectedCard |-> NoCard, selectedPosition |-> NoPosition,
     pendingClaim |-> Null, confirming |-> FALSE]

GameConstructed ==
    /\ game = [gameState |-> GAME_STATES.MENU,
               turnPhase |-> TURN_PHASES.SETUP,
               currentPlayer |-> Null,
               roundNumber |-> 1,
               isGameActive |-> FALSE,
               isPaused |-> FALSE,
               waitingForChallenge |-> FALSE,
               totalMoves |-> 0,
               pc |-> "idle"]
    /\ selection = NoSelection
    /\ errorHandling = NoError

\* No continuation of an earlier match is pending.
NoEarlierMatch == [pc |-> "none", index |-> 0, started |-> 0]

\* AI_DIFFICULTY (Constants.js), the rates in hundredths.
AI_DIFFICULTY ==
    [EASY   |-> [bluffRate |-> 20, challengeRate |-> 30, memoryDepth |-> 3,
                 adaptationRate |-> 10],
     MEDIUM |-> [bluffRate |-> 40, challengeRate |-> 50, memoryDepth |-> 5,
                 adaptationRate |-> 20],
     HARD   |-> [bluffRate |-> 60, challengeRate |-> 70, memoryDepth |-> 8,
                 adaptationRate |-> 30]]

\* new AIPlayer(player, difficulty): an empty memory and decision history,
\* the balanced strategy and the traits of the difficulty (in hundredths).
AIPlayer(difficulty) ==
    [difficulty |-> difficulty,
     maxMemorySize |-> AI_DIFFICULTY[difficulty].memoryDepth,
     strategy |-> "balanced",
     memory |-> << >>,
     decisionHistory |-> << >>,
     traits |-> [caution |-> 100 - AI_DIFFICULTY[difficulty].challengeRate,
                 adaptability |-> AI_DIFFICULTY[difficulty].adaptationRate]]

AIConstructed == aiPlayer = AIPlayer("MEDIUM")

gridVars == << grid, positionStates, changeHistory >>
battleVars ==
    << isProcessing, battleQueue, battleResults, battlePc, battleIndex >>
scoreVars == << scoreHistory, snapshot, achievements, unlockedEvents >>
challengeVars ==
    << lastPlayedCard, challengeTimer, pendingTimers, timerSeq,
       windowClosedEmitted, challengeHistory >>

-----------------------------------------------------------------------------
(* SpecOutcome: determineBattleOutcome on pairs of cards whose types,      *)
(* claims and owners are drawn freely; claims may change between calls.    *)

\* The two cards of the calls; the other cards of the heap stay as dealt.
OutcomeCards == {c \in CardIds : c <= 2}

InitOutcome ==
    /\ \E drawn \in [OutcomeCards ->
                       {[Card(t, o) EXCEPT !.claimedType = c] :
                           t \in CARD_TYPES, o \in PlayerIds,
                           c \in CARD_TYPES \cup {Null}}] :
          cards = [i \in CardIds |->
                     IF i \in OutcomeCards
                     THEN drawn[i]
                     ELSE Card("rock", "human")]
    /\ PlayersConstructed
    /\ GridConstructed
    /\ BattleConstructed
    /\ ChallengeConstructed
    /\ AIConstructed
    /\ earlierMatch = NoEarlierMatch
    /\ ScoreConstructed
    /\ GameConstructed
    /\ StateConstructed
    /\ ret = NoReturn

\* A call of BattleSystem.determineBattleOutcome(card1, card2).
callDetermineBattleOutcome(card1, card2) ==
    /\ card1 # card2
    /\ ret' = [op |-> "determineBattleOutcome",
               card1 |-> card1, card2 |-> card2,
               claimed1 |-> cards[card1].claimedType,
               claimed2 |-> cards[card2].claimedType,
               outcome |-> determineBattleOutcome(cards[card1], cards[card2])]
    /\ UNCHANGED << cards, players, gridVars, battleVars, challengeVars,
                    scoreVars, aiPlayer, earlierMatch, stateManager, reentrantPasses, errorHandling, selection, game >>

\* A call of card.setClaim(claimedType).
callSetClaim(card, claimedType) ==
    /\ cards' = [cards EXCEPT ![card] = setClaim(@, claimedType)]
    /\ UNCHANGED << players, gridVars, battleVars, challengeVars, scoreVars, aiPlayer, earlierMatch, stateManager, reentrantPasses, errorHandling, selection, game,
                    ret >>

NextOutcome ==
    \/ \E card1, card2 \in OutcomeCards :
          callDetermineBattleOutcome(card1, card2)
    \/ \E card \in OutcomeCards, claimedType \in CARD_TYPES :
          callSetClaim(card, claimedType)

SpecOutcome == InitOutcome /\ [][NextOutcome]_vars

\* The outcome by the rule rock > scissors, scissors > paper, paper > rock.
Defeats(a, b) ==
    << a, b >> \in { << "rock", "scissors" >>, << "scissors", "paper" >>,
                     << "paper", "rock" >> }

RuleOutcome(a, b) ==
    IF a = b THEN "tie"
    ELSE IF Defeats(a, b) THEN "card1_wins" ELSE "card2_wins"

\* C1: the outcome returned by determineBattleOutcome for two cards is the
\* one the rule gives for their actual types (tie on equal types, card1_wins
\* when card1's type defeats card2's, card2_wins otherwise), and it stays the
\* outcome of the two cards whatever claims are set on them afterwards.
C1_OutcomeByActualTypes ==
    ret.op = "determineBattleOutcome" =>
        /\ ret.outcome =
              RuleOutcome(cards[ret.card1].type, cards[ret.card2].type)
        /\ determineBattleOutcome(cards[ret.card1], cards[ret.card2])
              = ret.outcome

\* C1 witness: card1 won as rock against scissors, both claims have been
\* changed since, and card1 now claims the type that would lose.
C1_Witness ==
    /\ ret.op = "determineBattleOutcome"
    /\ ret.outcome = "card1_wins"
    /\ cards[ret.card1].type = "rock"
    /\ cards[ret.card2].type = "scissors"
    /\ cards[ret.card1].claimedType = "paper"
    /\ cards[ret.card1].claimedType # ret.claimed1
    /\ cards[ret.card2].claimedType # ret.claimed2

-----------------------------------------------------------------------------
(* SpecBattle: one resolveAllBattles pass over a grid that holds up to     *)
(* MaxCards placed cards of any type and owner.  The cards of a grid carry *)
(* either all a truthful claim or all the claim of the type that defeats   *)
(* them.  Animations are on (DEBUG.SKIP_ANIMATIONS = false), so the pass   *)
(* is suspended in delay(ANIMATIONS.BATTLE_RESOLVE) after every battle.    *)
(* (A value used more than once in an action is bound with \E over a       *)
(* singleton set.)                                                         *)

\* The card of rank i (by position) of a grid filled at the positions placed.
positionOfRank(placed, i) ==
    CHOOSE p \in placed : Cardinality({q \in placed : q <= p}) = i

InitBattle ==
    /\ \E placed \in {P \in SUBSET Positions : Cardinality(P) <= MaxCards} :
          LET k == Cardinality(placed)
          IN  /\ grid = [p \in Positions |->
                            IF p \in placed
                            THEN Cardinality({q \in placed : q <= p})
                            ELSE NoCard]
              /\ positionStates =
                    [p \in Positions |->
                        IF p \in placed
                        THEN POSITION_STATES.OCCUPIED
                        ELSE POSITION_STATES.EMPTY]
              /\ changeHistory =
                    [i \in 1 .. k |->
                        [action |-> "place",
                         position |-> positionOfRank(placed, i),
                         cardId |-> i]]
              /\ \E types \in [1 .. k -> CARD_TYPES],
                    owners \in [1 .. k -> PlayerIds],
                    bluffs \in BOOLEAN :
                    cards = [i \in CardIds |->
                               IF i <= k
                               THEN place(
                                      setClaim(Card(types[i], owners[i]),
                                               IF bluffs
                                               THEN CARD_INFO[types[i]].defeatedBy
                                               ELSE types[i]),
                                      positionOfRank(placed, i))
                               ELSE Card("rock", "human")]
    /\ PlayersConstructed
    /\ BattleConstructed
    /\ ChallengeConstructed
    /\ AIConstructed
    /\ earlierMatch = NoEarlierMatch
    /\ ScoreConstructed
    /\ GameConstructed
    /\ StateConstructed
    /\ ret = NoReturn

\* The end of a pass: processAdvancements, then the finally block.
finishPass(st, queue, results) ==
    \E done \in {processAdvancements(st, queue)} :
        /\ players' = done.players
        /\ cards' = done.cards
        /\ battleResults' = results
        /\ isProcessing' = FALSE
        /\ battlePc' = "done"
        /\ ret' = [op |-> "resolveAllBattles", results |-> results]

\* One iteration of the loop of resolveAllBattles, up to its delay.
battleIteration(st, queue, results, i) ==
    \E r \in {processBattle(st, queue[i + 1])} :
        /\ players' = r.players
        /\ cards' = r.cards
        /\ battleResults' = Append(results, r.result)
        /\ battleIndex' = i
        /\ isProcessing' = TRUE
        /\ battlePc' = "delay"
        /\ UNCHANGED ret

\* resolveAllBattles, from the call to its first suspension (or to its end
\* when there is no battle).
resolveAllBattles ==
    /\ battlePc = "idle"
    /\ IF isProcessing
       THEN /\ ret' = [op |-> "resolveAllBattles", results |-> battleResults]
            /\ UNCHANGED << cards, players, battleVars >>
       ELSE \E st \in {[players |-> players, cards |-> cards]},
               queue \in {identifyBattles} :
                /\ battleQueue' = queue
                /\ IF Len(queue) > TOTAL_POSITIONS
                   THEN /\ battleResults' = << >>
                        /\ isProcessing' = FALSE
                        /\ battlePc' = "done"
                        /\ ret' = [op |-> "resolveAllBattles",
                                   results |-> << >>]
                        /\ UNCHANGED << cards, players, battleIndex >>
                   ELSE IF Len(queue) > 0
                        THEN battleIteration(st, queue, << >>, 0)
                        ELSE /\ finishPass(st, queue, << >>)
                             /\ UNCHANGED battleIndex
    /\ UNCHANGED << gridVars, challengeVars, scoreVars, aiPlayer, earlierMatch, stateManager, reentrantPasses, errorHandling, selection, game >>

\* resolveAllBattles resumed after delay(ANIMATIONS.BATTLE_RESOLVE): the next
\* battle of the queue, or the end of the pass.
resumeAfterDelay ==
    /\ battlePc = "delay"
    /\ LET st == [players |-> players, cards |-> cards]
           i == battleIndex + 1
       IN  IF i < Len(battleQueue)
           THEN /\ battleIteration(st, battleQueue, battleResults, i)
                /\ UNCHANGED battleQueue
           ELSE /\ finishPass(st, battleQueue, battleResults)
                /\ battleIndex' = i
                /\ UNCHANGED battleQueue
    /\ UNCHANGED << gridVars, challengeVars, scoreVars, aiPlayer, earlierMatch, stateManager, reentrantPasses, errorHandling, selection, game >>

NextBattle ==
    \/ resolveAllBattles
    \/ resumeAfterDelay

SpecBattle == InitBattle /\ [][NextBattle]_vars

Occupied(p) == p \in Positions /\ grid[p] # NoCard

\* p and p + 1 are in the same row, p + 1 one column to the right of p.
RightInRow(p) == p + 1 \in Positions /\ (p + 1) % GRID_WIDTH # 0

\* The pairs (p, p + 1) of occupied same-row slots, in ascending order of p.
RECURSIVE RulePairsFrom(_)
RulePairsFrom(p) ==
    IF p > TOTAL_POSITIONS - 2
    THEN << >>
    ELSE (IF Occupied(p) /\ Occupied(p + 1) /\ RightInRow(p)
          THEN << [position1 |-> p, card1 |-> grid[p],
                   position2 |-> p + 1, card2 |-> grid[p + 1]] >>
          ELSE << >>) \o RulePairsFrom(p + 1)

RulePairs == RulePairsFrom(0)

ResolvesBattle(n) ==
    /\ Len(battleResults') = n
    /\ Len(battleResults) = n - 1

\* The score of every player grows by delta[player] in the step.
ScoresGrowBy(delta) ==
    \A p \in PlayerIds : players'[p].score = players[p].score + delta[p]

NoPoints == [p \in PlayerIds |-> 0]

\* C3: a step of the pass that resolves a battle pair of different types
\* adds BATTLE_WIN to the score of the owner of the card whose type defeats
\* the other's and changes no other score (also when both cards have one
\* owner); a pair of equal types changes no score; the battles are resolved
\* in the order of the enumerated pairs, and all of them by the end.
C3_BattleScoring ==
    [][ /\ \A n \in 1 .. TOTAL_POSITIONS :
            ResolvesBattle(n) =>
                LET pair == RulePairs[n]
                    type1 == cards[pair.card1].type
                    type2 == cards[pair.card2].type
                    winner == IF Defeats(type1, type2)
                              THEN pair.card1 ELSE pair.card2
                IN  /\ battleResults'[n].battle = pair
                    /\ battleResults'[n].outcome = RuleOutcome(type1, type2)
                    /\ IF type1 = type2
                       THEN ScoresGrowBy(NoPoints)
                       ELSE ScoresGrowBy(
                              [NoPoints EXCEPT
                                 ![cards[winner].owner] = BATTLE_WIN])
        /\ battlePc' = "done" => Len(battleResults') = Len(RulePairs)
      ]_vars

\* C3 witness: Rock of the human at 5, Scissors of the AI at 6; the battle is
\* resolved card1_wins and the human has exactly BATTLE_WIN.
C3_Witness ==
    /\ Occupied(5) /\ Occupied(6)
    /\ cards[grid[5]].type = "rock" /\ cards[grid[5]].owner = "human"
    /\ cards[grid[6]].type = "scissors" /\ cards[grid[6]].owner = "ai"
    /\ cards[grid[6]].claimedType = "rock"
    /\ battlePc = "delay"
    /\ Len(battleResults) = 1
    /\ battleResults[1].outcome = "card1_wins"
    /\ players["human"].score = BATTLE_WIN
    /\ players["ai"].score = 0

\* The card at p is in a battle pair: a same-row neighbour slot is occupied.
InBattlePair(p) ==
    \/ RightInRow(p) /\ Occupied(p + 1)
    \/ p - 1 \in Positions /\ RightInRow(p - 1) /\ Occupied(p - 1)

\* The positions orthogonally adjacent to p.
Orthogonal(p) ==
    {q \in Positions :
        \/ q = p - GRID_WIDTH
        \/ q = p + GRID_WIDTH
        \/ q = p + 1 /\ RightInRow(p)
        \/ q = p - 1 /\ RightInRow(q)}

\* What the card at p earns after the battles.
RulePoints(p) ==
    IF InBattlePair(p)
    THEN 0
    ELSE (IF RightInRow(p) /\ ~Occupied(p + 1) THEN ADVANCEMENT ELSE 0)
         + CONTROL * Cardinality(
               {q \in Orthogonal(p) :
                   Occupied(q) /\ cards[grid[q]].owner = cards[grid[p]].owner})

RECURSIVE SumPoints(_)
SumPoints(ps) ==
    IF ps = {}
    THEN 0
    ELSE LET p == CHOOSE q \in ps : TRUE
         IN  RulePoints(p) + SumPoints(ps \ {p})

-----------------------------------------------------------------------------
(* ChallengeSystem *)

\* The refusal of makeChallenge without the test of the challenger.
challengeRefusalNoSelfTest(challenger) ==
    IF lastPlayedCard = NoPlay \/ ~lastPlayedCard.challengeable
    THEN "No challengeable play available"
    ELSE Null

\* The early returns of makeChallenge: the error, or Null when the challenge
\* is accepted.
challengeRefusal(challenger) ==
    IF lastPlayedCard = NoPlay \/ ~lastPlayedCard.challengeable
    THEN "No challengeable play available"
    ELSE IF challenger = lastPlayedCard.player
         THEN "Cannot challenge your own play"
         ELSE Null

\* processChallenge's scoring with the penalty charged to the bluffer.
challengeScoringBlufferPays(pl, challenger, player, wasBluff) ==
    IF wasBluff
    THEN addScore([pl EXCEPT ![challenger].stats.challengesSuccessful = @ + 1,
                             ![player].stats.bluffsAttempted = @ - 1],
                  player, -CHALLENGE_PENALTY)
    ELSE [addScore(pl, challenger, -CHALLENGE_PENALTY) EXCEPT
             ![player].stats.truthfulPlays = @ + 1]

\* The two branches of processChallenge on the heap of players: a bluff costs
\* nobody points, a truthful play costs the challenger CHALLENGE_PENALTY.
challengeScoring(pl, challenger, player, wasBluff) ==
    IF wasBluff
    THEN [pl EXCEPT ![challenger].stats.challengesSuccessful = @ + 1,
                    ![player].stats.bluffsAttempted = @ - 1]
    ELSE [addScore(pl, challenger, -CHALLENGE_PENALTY) EXCEPT
             ![player].stats.truthfulPlays = @ + 1]

\* Card.reveal that leaves isRevealed as it is.
revealStateOnly(card) ==
    [card EXCEPT !.state = CARD_STATES.REVEALED]

\* The reveal of the challenged card in processChallenge.
revealChallenged(card) == reveal(card)

\* processChallenge on the heaps st.players and st.cards.
processChallenge(st, challenger, playData) ==
    LET card == playData.card
        player == playData.player
        wasBluff == playData.claimedType # playData.actualType
        result == IF wasBluff
                  THEN CHALLENGE_RESULTS.SUCCESSFUL
                  ELSE CHALLENGE_RESULTS.FAILED
        pointsChanged == IF wasBluff THEN 0 ELSE -CHALLENGE_PENALTY
        scored == challengeScoring(st.players, challenger, player, wasBluff)
        profiled ==
            updateBehaviorProfile(
                updateBehaviorProfile(scored, challenger, "challengeMade"),
                player, "challengeReceived")
    IN  [players |-> profiled,
         cards |-> [st.cards EXCEPT ![card] = revealChallenged(@)],
         result |-> [result |-> result, wasBluff |-> wasBluff,
                     pointsChanged |-> pointsChanged, cardRevealed |-> TRUE,
                     challenger |-> challenger, defendingPlayer |-> player,
                     card |-> card]]

\* makeChallenge leaving the challenged play challengeable.
markChallengedNot(play) == play

\* makeChallenge, "close challenge window": the play is challengeable no more.
markChallenged(play) == [play EXCEPT !.challengeable = FALSE]

\* closeChallengeWindow leaving the play challengeable.
markClosedNot(play) == play

\* closeChallengeWindow on the registered play, if any.
markClosed(play) ==
    IF play # NoPlay THEN [play EXCEPT !.challengeable = FALSE] ELSE play

\* registerPlay leaving the timer of the previous play scheduled.
keepPreviousTimer(timers, timer) == timers

\* registerPlay, "clear any existing challenge timer".
clearPreviousTimer(timers, timer) ==
    IF timer # NoTimer THEN timers \ {timer} ELSE timers

\* registerPlay: the pending timer is cleared, the play is recorded as
\* challengeable and a new timer is armed for the challenge window.
registerPlay(card, player, claimedType, position) ==
    /\ lastPlayedCard' = [card |-> card, player |-> player,
                          claimedType |-> claimedType,
                          actualType |-> cards[card].type,
                          position |-> position, challengeable |-> TRUE]
    /\ timerSeq' = timerSeq + 1
    /\ challengeTimer' = timerSeq + 1
    /\ pendingTimers' =
          clearPreviousTimer(pendingTimers, challengeTimer) \cup {timerSeq + 1}
    /\ UNCHANGED << windowClosedEmitted, challengeHistory >>

\* What makeChallenge returns when it refuses the challenge.
Refused(challenger, error) ==
    [op |-> "makeChallenge", challenger |-> challenger,
     play |-> lastPlayedCard.card, success |-> FALSE, error |-> error,
     result |-> Null, wasBluff |-> FALSE, pointsChanged |-> 0]

\* makeChallenge(challenger)
makeChallenge(challenger) ==
    \E error \in {challengeRefusal(challenger)} :
        IF error # Null
        THEN /\ ret' = Refused(challenger, error)
             /\ UNCHANGED << cards, players, challengeVars >>
        ELSE \E r \in {processChallenge(
                          [players |-> players, cards |-> cards],
                          challenger, lastPlayedCard)} :
                /\ pendingTimers' = pendingTimers \ {challengeTimer}
                /\ challengeTimer' = NoTimer
                /\ players' = r.players
                /\ cards' = r.cards
                /\ challengeHistory' =
                      Append(challengeHistory,
                             [challenger |-> challenger,
                              defendingPlayer |-> lastPlayedCard.player,
                              card |-> lastPlayedCard.card,
                              claimedType |-> lastPlayedCard.claimedType,
                              actualType |-> lastPlayedCard.actualType,
                              result |-> r.result.result,
                              pointsChanged |-> r.result.pointsChanged])
                /\ lastPlayedCard' = markChallenged(lastPlayedCard)
                /\ ret' = [op |-> "makeChallenge", challenger |-> challenger,
                           play |-> lastPlayedCard.card, success |-> TRUE,
                           error |-> Null, result |-> r.result.result,
                           wasBluff |-> r.result.wasBluff,
                           pointsChanged |-> r.result.pointsChanged]
                /\ UNCHANGED << timerSeq, windowClosedEmitted >>

\* The count of CHALLENGE_WINDOW_CLOSED events after closeChallengeWindow,
\* which emits the event on every call.
windowClosedEvents(emitted) ==
    IF emitted < MaxNotifications THEN emitted + 1 ELSE emitted

\* The body of closeChallengeWindow, the timers scheduled being `timers`.
closeWindow(timers) ==
    /\ lastPlayedCard' = markClosed(lastPlayedCard)
    /\ pendingTimers' = timers \ {challengeTimer}
    /\ challengeTimer' = NoTimer
    /\ windowClosedEmitted' = windowClosedEvents(windowClosedEmitted)
    /\ UNCHANGED << timerSeq, challengeHistory >>

\* closeChallengeWindow called directly (forceCloseChallenges).
closeChallengeWindow == closeWindow(pendingTimers)

\* The timer armed by registerPlay expires: its callback closes the window.
timerFires(timer) ==
    /\ timer \in pendingTimers
    /\ closeWindow(pendingTimers \ {timer})

\* ChallengeSystem.clear
clear ==
    /\ challengeHistory' = << >>
    /\ lastPlayedCard' = NoPlay
    /\ pendingTimers' = pendingTimers \ {challengeTimer}
    /\ challengeTimer' = NoTimer
    /\ UNCHANGED << timerSeq, windowClosedEmitted >>

-----------------------------------------------------------------------------
(* SpecChallenge: the challenge protocol over the plays of a round.  The   *)
(* deal is rock, paper, scissors, ... in the order of the cards; the odd   *)
(* cards go to the human, the even ones to the AI; the players enter with  *)
(* any scores up to MaxInitScore.  A play puts a card of a hand on the     *)
(* grid with any claim, at the slot of the card's number, and registers    *)
(* it, as Game.executePlay does.                                           *)

ownerOf(card) == IF card % 2 = 1 THEN "human" ELSE "ai"

dealtType(card) ==
    CASE card % 3 = 1 -> "rock"
      [] card % 3 = 2 -> "paper"
      [] OTHER -> "scissors"

InitChallenge ==
    /\ cards = [c \in CardIds |-> Card(dealtType(c), ownerOf(c))]
    /\ \E scores \in [PlayerIds -> 0 .. MaxInitScore] :
          players = [p \in PlayerIds |->
                        [Player EXCEPT
                            !.score = scores[p],
                            !.hand = {c \in CardIds : ownerOf(c) = p}]]
    /\ GridConstructed
    /\ BattleConstructed
    /\ ChallengeConstructed
    /\ AIConstructed
    /\ earlierMatch = NoEarlierMatch
    /\ ScoreConstructed
    /\ GameConstructed
    /\ StateConstructed
    /\ ret = NoReturn

\* Game.executePlay of player, up to the registration of the play:
\* validatePlay (a play that is not valid throws and changes nothing),
\* gridSystem.placeCard, playCard, registerPlay.
playExecuted(player, card, position, claimedType) ==
    /\ card \in players[player].hand
    /\ isPositionAvailable(position)
    /\ claimedType \in CARD_TYPES
    /\ gridPlaced(card, position)
    /\ \E st \in {playCard([players |-> players,
                            cards |-> [cards EXCEPT
                                          ![card] = place(@, position)]],
                           player, card, position, claimedType)} :
          /\ players' = st.players
          /\ cards' = st.cards
    /\ registerPlay(card, player, claimedType, position)

\* Game.executePlay by the owner of the card, up to the registration of the
\* play.  Like the other handlers that return nothing, it leaves no return
\* value behind.
executePlay(card, position, claimedType) ==
    /\ playExecuted(cards[card].owner, card, position, claimedType)
    /\ ret' = NoReturn
    /\ UNCHANGED << battleVars, scoreVars, aiPlayer, earlierMatch, stateManager, reentrantPasses, errorHandling, selection, game >>

challengeAttempt(challenger) ==
    /\ makeChallenge(challenger)
    /\ UNCHANGED << gridVars, battleVars, scoreVars, aiPlayer, earlierMatch, stateManager, reentrantPasses, errorHandling, selection, game >>

windowClosed ==
    /\ closeChallengeWindow
    /\ ret' = NoReturn
    /\ UNCHANGED << cards, players, gridVars, battleVars, scoreVars, aiPlayer, earlierMatch, stateManager, reentrantPasses, errorHandling, selection, game >>

windowExpires(timer) ==
    /\ timerFires(timer)
    /\ ret' = NoReturn
    /\ UNCHANGED << cards, players, gridVars, battleVars, scoreVars, aiPlayer, earlierMatch, stateManager, reentrantPasses, errorHandling, selection, game >>

challengesCleared ==
    /\ clear
    /\ ret' = NoReturn
    /\ UNCHANGED << cards, players, gridVars, battleVars, scoreVars, aiPlayer, earlierMatch, stateManager, reentrantPasses, errorHandling, selection, game >>

NextChallenge ==
    \/ \E card \in CardIds, claimedType \in CARD_TYPES :
          executePlay(card, card - 1, claimedType)
    \/ \E challenger \in PlayerIds : challengeAttempt(challenger)
    \/ windowClosed
    \/ \E timer \in pendingTimers : windowExpires(timer)
    \/ challengesCleared

SpecChallenge == InitChallenge /\ [][NextChallenge]_vars

-----------------------------------------------------------------------------
(* The challenge protocol: what is claimed of it *)

\* A play is registered.
PlayRegistered == lastPlayedCard # NoPlay

\* The registered play has been challenged: the history holds its card (a
\* card is played once).
PlayChallenged ==
    /\ PlayRegistered
    /\ \E i \in DOMAIN challengeHistory :
          challengeHistory[i].card = lastPlayedCard.card

\* The step leaves the scores, the statistics and the cards as they are and
\* appends no record.
NothingChallenged ==
    /\ players' = players
    /\ cards' = cards
    /\ challengeHistory' = challengeHistory

\* The step keeps the registered play (the next registerPlay replaces it).
SamePlay ==
    /\ PlayRegistered
    /\ lastPlayedCard' # NoPlay
    /\ lastPlayedCard'.card = lastPlayedCard.card

\* C5: at most one makeChallenge succeeds per registered play.  A call is
\* accepted only for a play not yet challenged and appends exactly one record;
\* from then on, as long as that play is the registered one, the play stays
\* challenged and every makeChallenge fails, appends no record and changes no
\* score.
C5_OneChallengePerPlay ==
    [][/\ \A ch \in PlayerIds :
             makeChallenge(ch) =>
                /\ ret'.success =>
                      /\ ~PlayChallenged
                      /\ PlayChallenged'
                      /\ Len(challengeHistory') = Len(challengeHistory) + 1
                /\ PlayChallenged =>
                      /\ ~ret'.success
                      /\ NothingChallenged
       /\ (PlayChallenged /\ SamePlay) => PlayChallenged'
       /\ \A i, j \in DOMAIN challengeHistory' :
             challengeHistory'[i].card = challengeHistory'[j].card => i = j
      ]_vars

\* C5 happens: a challenge was accepted for the registered play and a later
\* call for the same play has been refused.
C5_Witness ==
    /\ PlayChallenged
    /\ ret.op = "makeChallenge"
    /\ ret.play = lastPlayedCard.card
    /\ ~ret.success
    /\ ret.challenger # lastPlayedCard.player
    /\ Len(challengeHistory) = 1

\* The registered play is truthful: the card claims its own type.
TruthfulPlay ==
    /\ PlayRegistered
    /\ cards[lastPlayedCard.card].claimedType = cards[lastPlayedCard.card].type

\* C6: an accepted challenge of a truthful play results in CHALLENGE_FAILED,
\* takes CHALLENGE_PENALTY from the challenger's score, which stops at 0, and
\* leaves the defender's score as it is.
C6_TruthfulPlayChallenged ==
    [][\A ch \in PlayerIds :
          (makeChallenge(ch) /\ ret'.success /\ TruthfulPlay) =>
             /\ ret'.result = CHALLENGE_RESULTS.FAILED
             /\ players'[ch].score =
                   (IF players[ch].score >= CHALLENGE_PENALTY
                    THEN players[ch].score - CHALLENGE_PENALTY
                    ELSE 0)
             /\ \A p \in PlayerIds \ {ch} : players'[p].score = players[p].score
      ]_vars

\* C6 happens: the human played a truthful rock and the AI, challenging it
\* with a score of 0, stays at 0.
C6_Witness ==
    /\ ret.op = "makeChallenge"
    /\ ret.success
    /\ ret.challenger = "ai"
    /\ ret.result = CHALLENGE_RESULTS.FAILED
    /\ PlayRegistered
    /\ lastPlayedCard.claimedType = "rock"
    /\ players["ai"].scoreUpdate =
          [oldScore |-> 0, newScore |-> 0, pointsAdded |-> -CHALLENGE_PENALTY]
    /\ players["ai"].score = 0

\* C7: an accepted challenge of a bluff results in CHALLENGE_SUCCESSFUL and
\* changes neither player's score.
C7_BluffChallenged ==
    [][\A ch \in PlayerIds :
          (makeChallenge(ch) /\ ret'.success /\ PlayRegistered /\ ~TruthfulPlay)
             => /\ ret'.result = CHALLENGE_RESULTS.SUCCESSFUL
                /\ \A p \in PlayerIds : players'[p].score = players[p].score
      ]_vars

\* C7 happens: the AI claimed rock with its paper, the human challenged, and
\* both hold the scores they entered with.
C7_Witness ==
    /\ ret.op = "makeChallenge"
    /\ ret.success
    /\ ret.challenger = "human"
    /\ ret.result = CHALLENGE_RESULTS.SUCCESSFUL
    /\ PlayRegistered
    /\ lastPlayedCard.player = "ai"
    /\ lastPlayedCard.actualType = "paper"
    /\ lastPlayedCard.claimedType = "rock"
    /\ players["human"].score = MaxInitScore
    /\ players["ai"].score = MaxInitScore
    /\ \A p \in PlayerIds : players[p].scoreUpdate = NoScoreUpdate

\* C8: every accepted makeChallenge leaves the challenged card revealed
\* (isRevealed, state "revealed"), whatever the result, and reports wasBluff
\* exactly when the claimed type differs from the actual type.
C8_ChallengedCardRevealed ==
    [][\A ch \in PlayerIds :
          (makeChallenge(ch) /\ ret'.success) =>
             /\ PlayRegistered
             /\ cards'[lastPlayedCard.card].isRevealed
             /\ cards'[lastPlayedCard.card].state = CARD_STATES.REVEALED
             /\ ret'.wasBluff =
                   (cards[lastPlayedCard.card].claimedType
                       # cards[lastPlayedCard.card].type)
      ]_vars

\* C8 happens: a truthful play was challenged and its card lies revealed.
C8_Witness ==
    /\ ret.op = "makeChallenge"
    /\ ret.success
    /\ ~ret.wasBluff
    /\ ret.play \in CardIds
    /\ cards[ret.play].isRevealed
    /\ cards[ret.play].state = CARD_STATES.REVEALED
    /\ cards[ret.play].claimedType = cards[ret.play].type

\* The step leaves the challenge system as it is: the registered play with
\* its challengeable flag, the pending timer, the history.
ChallengeSystemKept ==
    /\ lastPlayedCard' = lastPlayedCard
    /\ challengeTimer' = challengeTimer
    /\ pendingTimers' = pendingTimers
    /\ challengeHistory' = challengeHistory

\* C9: makeChallenge fails with "No challengeable play available" when no play
\* is registered or the registered play is not challengeable, and with
\* "Cannot challenge your own play" when the challenger is the author of the
\* challengeable play; either way no card is revealed, no score or statistic
\* changes, no record is appended, and the challengeable flag and the pending
\* timer stay as they were.
C9_RefusedChallenge ==
    [][\A ch \in PlayerIds :
          makeChallenge(ch) =>
             /\ (~PlayRegistered \/ ~lastPlayedCard.challengeable) =>
                   /\ ~ret'.success
                   /\ ret'.error = "No challengeable play available"
             /\ (/\ PlayRegistered
                 /\ lastPlayedCard.challengeable
                 /\ ch = ownerOf(lastPlayedCard.card)) =>
                   /\ ~ret'.success
                   /\ ret'.error = "Cannot challenge your own play"
             /\ ~ret'.success =>
                   /\ NothingChallenged
                   /\ ChallengeSystemKept
                   /\ ret'.result = Null
      ]_vars

\* C9 happens: the author has challenged their own play, which is still
\* challengeable, hidden and guarded by its timer.
C9_Witness ==
    /\ ret.op = "makeChallenge"
    /\ ret.error = "Cannot challenge your own play"
    /\ PlayRegistered
    /\ ret.play = lastPlayedCard.card
    /\ ret.challenger = lastPlayedCard.player
    /\ lastPlayedCard.challengeable
    /\ challengeTimer \in pendingTimers
    /\ ~cards[lastPlayedCard.card].isRevealed
    /\ challengeHistory = << >>

\* The window of the registered play is closed.
WindowClosed == PlayRegistered /\ ~lastPlayedCard.challengeable

\* C10: once the window of a play has closed, by the expiry of its timer or by
\* closeChallengeWindow, the play is never challengeable again: the window
\* stays closed as long as the play is the registered one, and every
\* makeChallenge then fails, reveals no card and changes no score.
C10_ClosedWindowStaysClosed ==
    [][/\ (closeChallengeWindow \/ \E t \in pendingTimers : timerFires(t))
             => (PlayRegistered => WindowClosed')
       /\ (WindowClosed /\ SamePlay) => WindowClosed'
       /\ \A ch \in PlayerIds :
             (WindowClosed /\ makeChallenge(ch)) =>
                /\ ~ret'.success
                /\ cards' = cards
                /\ \A p \in PlayerIds : players'[p].score = players[p].score
      ]_vars

\* C10 happens: the window of an unchallenged play has closed with its timer
\* gone, and the opponent's challenge of that play has been refused, the card
\* still hidden.
C10_Witness ==
    /\ WindowClosed
    /\ ~PlayChallenged
    /\ challengeTimer = NoTimer
    /\ pendingTimers = {}
    /\ ret.op = "makeChallenge"
    /\ ret.play = lastPlayedCard.card
    /\ ret.challenger # lastPlayedCard.player
    /\ ~ret.success
    /\ ~cards[lastPlayedCard.card].isRevealed
    /\ timerSeq > 1

\* A closeChallengeWindow has left the state: no play is challengeable, no
\* timer is pending, CHALLENGE_WINDOW_CLOSED has been emitted.
JustClosed ==
    /\ ~PlayRegistered \/ ~lastPlayedCard.challengeable
    /\ challengeTimer = NoTimer
    /\ windowClosedEmitted > 0

\* C11: calling closeChallengeWindow twice in a row leaves the same state as
\* calling it once (play not challengeable, no pending timer), and the second
\* call emits no further CHALLENGE_WINDOW_CLOSED.
C11_CloseTwice ==
    [][(JustClosed /\ closeChallengeWindow) =>
          /\ lastPlayedCard' = lastPlayedCard
          /\ challengeTimer' = NoTimer
          /\ pendingTimers' = pendingTimers
          /\ windowClosedEmitted' = windowClosedEmitted
      ]_vars

\* The part of C11 about the state: a second closeChallengeWindow changes
\* neither the registered play nor the timers.
C11_SameStateClosedTwice ==
    [][(JustClosed /\ closeChallengeWindow) =>
          /\ lastPlayedCard' = lastPlayedCard
          /\ challengeTimer' = NoTimer
          /\ pendingTimers' = pendingTimers
      ]_vars

\* C11 happens: a play was registered and its window closed twice; the second
\* close has emitted a second CHALLENGE_WINDOW_CLOSED.
C11_Witness ==
    /\ PlayRegistered
    /\ ~lastPlayedCard.challengeable
    /\ timerSeq = 1
    /\ pendingTimers = {}
    /\ challengeTimer = NoTimer
    /\ windowClosedEmitted = 2

\* C12: at any time at most one challenge-window timer is pending, and it is
\* the timer registerPlay armed for the registered play, which is then the one
\* challengeable play; so a timer that expires closes the window of the play
\* it was armed for, never that of a later play, whatever the interleaving of
\* registerPlay, makeChallenge, timer expiry and clear.
C12_OneWindowTimer ==
    [][/\ Cardinality(pendingTimers') <= 1
       /\ \A t \in pendingTimers' :
             /\ t = challengeTimer'
             /\ t = timerSeq'
             /\ lastPlayedCard' # NoPlay
             /\ lastPlayedCard'.challengeable
       /\ \A t \in pendingTimers :
             timerFires(t) =>
                /\ t = timerSeq
                /\ PlayRegistered
                /\ lastPlayedCard'.card = lastPlayedCard.card
      ]_vars

\* C12 happens: a second play was registered while the window of the first
\* had not been closed; only the timer of the second play is pending.
C12_Witness ==
    /\ timerSeq = 2
    /\ pendingTimers = {2}
    /\ challengeTimer = 2
    /\ PlayRegistered
    /\ lastPlayedCard.challengeable
    /\ windowClosedEmitted = 0
    /\ challengeHistory = << >>

-----------------------------------------------------------------------------
(* SpecGrid: GridSystem under any sequence of placeCard, removeCard and    *)
(* clear.  The calls name any card and one of a few positions: the first   *)
(* two slots, the first slot of the second row, the last slot, and the two *)
(* positions just outside the grid.                                        *)

GridInputs ==
    {-1, 0, 1, GRID_WIDTH, TOTAL_POSITIONS - 1, TOTAL_POSITIONS}

InitGrid ==
    /\ cards = [c \in CardIds |-> Card(dealtType(c), ownerOf(c))]
    /\ PlayersConstructed
    /\ GridConstructed
    /\ BattleConstructed
    /\ ChallengeConstructed
    /\ AIConstructed
    /\ earlierMatch = NoEarlierMatch
    /\ ScoreConstructed
    /\ GameConstructed
    /\ StateConstructed
    /\ ret = NoReturn

cardPlaced(card, position) ==
    /\ isPositionAvailable(position) => Len(changeHistory) < MaxGridChanges
    /\ placeCard(card, position)
    /\ UNCHANGED << players, battleVars, challengeVars, scoreVars, aiPlayer, earlierMatch, stateManager, reentrantPasses, errorHandling, selection, game >>

cardRemoved(position) ==
    /\ isPositionOccupied(position) => Len(changeHistory) < MaxGridChanges
    /\ removeCard(position)
    /\ UNCHANGED << cards, players, battleVars, challengeVars, scoreVars, aiPlayer, earlierMatch, stateManager, reentrantPasses, errorHandling, selection, game >>

gridCleared ==
    /\ clearGrid
    /\ ret' = NoReturn
    /\ UNCHANGED << cards, players, battleVars, challengeVars, scoreVars, aiPlayer, earlierMatch, stateManager, reentrantPasses, errorHandling, selection, game >>

NextGrid ==
    \/ \E card \in CardIds, position \in GridInputs : cardPlaced(card, position)
    \/ \E position \in GridInputs : cardRemoved(position)
    \/ gridCleared

SpecGrid == InitGrid /\ [][NextGrid]_vars

\* C14: after any sequence of placeCard, removeCard and clear, for every
\* position p isPositionOccupied(p) equals getCardAt(p) # null, every card
\* stored in slot i has position i, and no card is stored in two slots.
C14_GridOccupancy ==
    /\ \A p \in Positions : isPositionOccupied(p) = (getCardAt(p) # NoCard)
    /\ \A i \in Positions : grid[i] # NoCard => cards[grid[i]].position = i
    /\ \A i, j \in Positions :
          (grid[i] # NoCard /\ grid[i] = grid[j]) => i = j

\* The part of C14 about occupancy alone: isPositionOccupied(p) equals
\* getCardAt(p) # null for every position, inside the grid or not.
C14_OccupiedIffCard ==
    \A p \in Positions \cup GridInputs :
        isPositionOccupied(p) = (getCardAt(p) # NoCard)

\* C14 happens: one card placed twice is stored in slots 0 and 1 and holds
\* position 1.
C14_Witness ==
    /\ grid[0] # NoCard
    /\ grid[0] = grid[1]
    /\ cards[grid[0]].position = 1
    /\ positionStates[0] = POSITION_STATES.OCCUPIED
    /\ positionStates[1] = POSITION_STATES.OCCUPIED

\* C15: placeCard on an occupied slot or on a position outside
\* 0 .. TOTAL_POSITIONS - 1 throws and leaves every slot, every position
\* state, the change history and the card's state and position as they were.
C15_PlaceCardRefused ==
    [][\A card \in CardIds, position \in GridInputs :
          (/\ placeCard(card, position)
           /\ \/ position \notin Positions
              \/ grid[position] # NoCard) =>
             /\ ret'.thrown
             /\ grid' = grid
             /\ positionStates' = positionStates
             /\ changeHistory' = changeHistory
             /\ cards'[card].state = cards[card].state
             /\ cards'[card].position = cards[card].position
      ]_vars

\* C15 happens: a card still in hand was refused at slot 0, which holds
\* another card.
C15_Witness ==
    /\ ret.op = "placeCard"
    /\ ret.thrown
    /\ ret.position = 0
    /\ grid[0] # NoCard
    /\ grid[0] # ret.card
    /\ cards[ret.card].state = CARD_STATES.IN_HAND
    /\ cards[ret.card].position = NoPosition
    /\ Len(changeHistory) = 1

-----------------------------------------------------------------------------
(* Player.hasWon and ScoreSystem *)

opponentOf(p) == IF p = "human" THEN "ai" ELSE "human"

\* Player.hasWon asking for a lead greater than MIN_VICTORY_LEAD.
hasWonStrictLead(pl, p, opponent) ==
    /\ pl[p].score >= VICTORY_POINTS
    /\ pl[p].score > pl[opponent].score + MIN_VICTORY_LEAD

\* Player.hasWon true only at exactly VICTORY_POINTS.
hasWonAtThreshold(pl, p, opponent) ==
    /\ pl[p].score = VICTORY_POINTS
    /\ pl[p].score >= pl[opponent].score + MIN_VICTORY_LEAD

\* Player.hasWon(opponent) of player p on the heap pl.
hasWon(pl, p, opponent) ==
    /\ pl[p].score >= VICTORY_POINTS
    /\ pl[p].score >= pl[opponent].score + MIN_VICTORY_LEAD

\* ScoreSystem keeps at most SCORE_HISTORY_LIMIT entries when it awards.
SCORE_HISTORY_LIMIT == 100

\* applyMultipliers: no multiplier is registered, the points are rounded.
applyMultipliers(p, points) == points

\* ScoreSystem.hasAchievement(player, achievementId) on the map ach.
hasAchievement(ach, p, achievementId) == achievementId \in ach[p]

\* ScoreSystem.unlockAchievement without the test of what is unlocked.
unlockAchievementAgain(s, p, achievementId) ==
    [achievements |-> [s.achievements EXCEPT ![p] = @ \cup {achievementId}],
     emitted |-> Append(s.emitted, [player |-> p, id |-> achievementId])]

\* ScoreSystem.unlockAchievement(player, achievementId) on s, the map of
\* the achievements with the achievement_unlocked events emitted so far: an
\* achievement the player holds is left alone, a new one is added and emitted.
unlockAchievement(s, p, achievementId) ==
    IF achievementId \in s.achievements[p]
    THEN s
    ELSE [achievements |->
             [s.achievements EXCEPT ![p] = @ \cup {achievementId}],
          emitted |-> Append(s.emitted, [player |-> p, id |-> achievementId])]

\* The records of a history that are battle wins of player p
\* (scoreHistory.filter of checkComboAchievements).
battleWinsOf(history, p) ==
    {i \in 1 .. Len(history) :
        history[i].player = p /\ history[i].reason = "battle_win"}

\* ScoreSystem.checkComboAchievements(player); inTime tells whether the last
\* three wins lie within 10000 ms (the timestamps are read from Date.now).
checkComboAchievements(s, p, history, inTime) ==
    IF Cardinality(battleWinsOf(history, p)) >= 3 /\ inTime
    THEN unlockAchievement(s, p, "win_streak")
    ELSE s

\* ScoreSystem.checkAchievements(player, scoreChange), after the change has
\* been recorded in history.
checkAchievements(s, p, scoreChange, history, inTime) ==
    LET first == IF scoreChange.oldScore = 0 /\ scoreChange.newScore > 0
                 THEN unlockAchievement(s, p, "first_score")
                 ELSE s
        five  == IF /\ scoreChange.newScore >= 5
                    /\ ~hasAchievement(first.achievements, p, "score_5")
                 THEN unlockAchievement(first, p, "score_5")
                 ELSE first
        ten   == IF /\ scoreChange.newScore >= 10
                    /\ ~hasAchievement(five.achievements, p, "score_10")
                 THEN unlockAchievement(five, p, "score_10")
                 ELSE five
        twenty == IF /\ scoreChange.newScore >= 20
                     /\ ~hasAchievement(ten.achievements, p, "score_20")
                  THEN unlockAchievement(ten, p, "score_20")
                  ELSE ten
        combo == IF scoreChange.reason = "battle_win"
                 THEN checkComboAchievements(twenty, p, history, inTime)
                 ELSE twenty
    IN  IF scoreChange.points >= 5
        THEN unlockAchievement(combo, p, "big_score")
        ELSE combo

\* ScoreSystem.awardPoints(player, points, reason): the points go through
\* Player.addScore, the change is recorded, the history trimmed and the
\* achievements checked.
awardPoints(p, points, reason) ==
    /\ points >= 0
    /\ \E finalPoints \in {applyMultipliers(p, points)} :
       \E pl \in {addScore(players, p, finalPoints)} :
       \E scoreChange \in {[kind |-> "award", player |-> p,
                            points |-> finalPoints, requested |-> points,
                            reason |-> reason,
                            oldScore |-> players[p].score,
                            newScore |-> pl[p].score]} :
          /\ players' = pl
          /\ \E pushed \in {Append(scoreHistory, scoreChange)} :
                scoreHistory' = IF Len(pushed) > SCORE_HISTORY_LIMIT
                                THEN Tail(pushed)
                                ELSE pushed
          /\ \E inTime \in BOOLEAN :
             \E checked \in {checkAchievements(
                                [achievements |-> achievements,
                                 emitted |-> unlockedEvents],
                                p, scoreChange, scoreHistory', inTime)} :
                /\ achievements' = checked.achievements
                /\ unlockedEvents' = checked.emitted
          /\ ret' = [op |-> "awardPoints", player |-> p,
                     oldScore |-> players[p].score, newScore |-> pl[p].score]

\* ScoreSystem.deductPoints(player, points, reason): at most the player's
\* score is deducted, through Player.addScore; the change is recorded.
deductPoints(p, points, reason) ==
    /\ points >= 0
    /\ \E actualDeduction \in
             {IF points <= players[p].score THEN points ELSE players[p].score} :
       \E pl \in {addScore(players, p, -actualDeduction)} :
          /\ players' = pl
          /\ scoreHistory' =
                Append(scoreHistory,
                       [kind |-> "deduct", player |-> p,
                        points |-> actualDeduction, requested |-> points,
                        reason |-> reason,
                        oldScore |-> players[p].score,
                        newScore |-> pl[p].score])
          /\ ret' = [op |-> "deductPoints", player |-> p,
                     oldScore |-> players[p].score, newScore |-> pl[p].score]

-----------------------------------------------------------------------------
(* SpecScore: the scores under ScoreSystem.awardPoints and deductPoints,   *)
(* the penalty of a failed challenge (Player.addScore with a negative      *)
(* amount) and Player.hasWon.  The players enter with scores at 0 or at   *)
(* VICTORY_POINTS, or one point away.                                      *)

EntryScores == {0, CHALLENGE_PENALTY, VICTORY_POINTS - 1, VICTORY_POINTS}

InitScore ==
    /\ cards = [c \in CardIds |-> Card(dealtType(c), ownerOf(c))]
    /\ \E scores \in [PlayerIds -> EntryScores] :
          players = [p \in PlayerIds |-> [Player EXCEPT !.score = scores[p]]]
    /\ GridConstructed
    /\ BattleConstructed
    /\ ChallengeConstructed
    /\ AIConstructed
    /\ earlierMatch = NoEarlierMatch
    /\ ScoreConstructed
    /\ GameConstructed
    /\ StateConstructed
    /\ ret = NoReturn

pointsAwarded(p, points) ==
    /\ Len(scoreHistory) < MaxScoreCalls
    /\ awardPoints(p, points, "advancement")
    /\ UNCHANGED << cards, gridVars, battleVars, challengeVars, snapshot, aiPlayer, earlierMatch,
                    game, stateManager,
                    reentrantPasses, selection, errorHandling >>

pointsDeducted(p, points) ==
    /\ Len(scoreHistory) < MaxScoreCalls
    /\ deductPoints(p, points, "penalty")
    /\ UNCHANGED << cards, gridVars, battleVars, challengeVars, snapshot, aiPlayer, earlierMatch,
                    achievements, unlockedEvents,
                    game, stateManager,
                    reentrantPasses, selection, errorHandling >>

\* ChallengeSystem.processChallenge on a truthful play of the opponent: the
\* challenger p pays the penalty, the opponent has one more truthful play.
challengePenalty(p) ==
    /\ players[opponentOf(p)].stats.truthfulPlays < MaxScoreCalls
    /\ players' = challengeScoring(players, p, opponentOf(p), FALSE)
    /\ ret' = [op |-> "addScore", player |-> p,
               oldScore |-> players[p].score,
               newScore |-> players'[p].score]
    /\ UNCHANGED << cards, gridVars, battleVars, challengeVars, scoreVars, aiPlayer, earlierMatch, stateManager, reentrantPasses, errorHandling, selection, game >>

\* Player.hasWon(opponent) is asked of player p.
callHasWon(p) ==
    /\ ret' = [op |-> "hasWon", player |-> p,
               won |-> hasWon(players, p, opponentOf(p))]
    /\ UNCHANGED << cards, players, gridVars, battleVars, challengeVars,
                    scoreVars, aiPlayer, earlierMatch, stateManager, reentrantPasses, errorHandling, selection, game >>

NextScore ==
    \/ \E p \in PlayerIds, points \in 0 .. MaxPoints : pointsAwarded(p, points)
    \/ \E p \in PlayerIds, points \in 0 .. MaxPoints : pointsDeducted(p, points)
    \/ \E p \in PlayerIds : challengePenalty(p)
    \/ \E p \in PlayerIds : callHasWon(p)

SpecScore == InitScore /\ [][NextScore]_vars

-----------------------------------------------------------------------------
(* The scores: what is claimed of them *)

\* C13: after every score change (awardPoints, deductPoints, the awards and
\* penalties that go through Player.addScore) every player's score is >= 0.
C13_ScoresNonNegative ==
    \A p \in PlayerIds : players[p].score >= 0

\* C13 happens: a player at 0 has paid the penalty of a failed challenge and
\* is still at 0, and the score system has deducted from a player.
C13_Witness ==
    /\ ret.op = "addScore"
    /\ ret.oldScore = 0
    /\ ret.newScore = 0
    /\ players[ret.player].score = 0
    /\ Len(scoreHistory) = 1
    /\ scoreHistory[1].kind = "deduct"

\* The heap of two players with the given scores.
Scored(human, ai) ==
    [p \in PlayerIds |->
        [Player EXCEPT !.score = IF p = "human" THEN human ELSE ai]]

\* C17: hasWon(opponent) is true exactly when the player's score is at least
\* VICTORY_POINTS and exceeds the opponent's by at least MIN_VICTORY_LEAD; a
\* lead of exactly MIN_VICTORY_LEAD suffices: 10 against 9 wins, 10 against 10
\* does not.
C17_HasWon ==
    [][\A p \in PlayerIds :
          callHasWon(p) =>
             /\ ret'.won =
                   (/\ players[p].score >= VICTORY_POINTS
                    /\ players[p].score - players[opponentOf(p)].score
                          >= MIN_VICTORY_LEAD)
             /\ hasWon(Scored(10, 9), "human", "ai")
             /\ ~hasWon(Scored(10, 10), "human", "ai")
             /\ ~hasWon(Scored(10, 10), "ai", "human")
      ]_vars

\* C17 happens: hasWon was asked of a player at VICTORY_POINTS who leads by
\* exactly MIN_VICTORY_LEAD, and answered true.
C17_Witness ==
    /\ ret.op = "hasWon"
    /\ ret.won
    /\ players[ret.player].score = VICTORY_POINTS
    /\ players[opponentOf(ret.player)].score
          = VICTORY_POINTS - MIN_VICTORY_LEAD

\* The heap of the scores read when the observation began.
AtSnapshot == [p \in PlayerIds |-> [score |-> snapshot[p]]]

\* The lead of player p over the opponent on the heap pl.
Lead(pl, p) == pl[p].score - pl[opponentOf(p)].score

\* C19 as stated: if hasWon is true for a player at one snapshot, it is true
\* at every later snapshot in which the player's lead is not smaller.
C19_WonStaysWon ==
    \A p \in PlayerIds :
        (/\ hasWon(AtSnapshot, p, opponentOf(p))
         /\ Lead(players, p) >= Lead(AtSnapshot, p))
           => hasWon(players, p, opponentOf(p))

\* C19 amended: if hasWon is true for a player at one snapshot, it is true at
\* every later snapshot in which neither the player's lead nor the player's
\* own score is smaller.
C19_WonStaysWonUnlessScoreDrops ==
    \A p \in PlayerIds :
        (/\ hasWon(AtSnapshot, p, opponentOf(p))
         /\ Lead(players, p) >= Lead(AtSnapshot, p)
         /\ players[p].score >= snapshot[p])
           => hasWon(players, p, opponentOf(p))

\* C19 happens: a player who had won at the snapshot has since been awarded
\* a point and has still won.
C19_Witness ==
    \E p \in PlayerIds :
        /\ hasWon(AtSnapshot, p, opponentOf(p))
        /\ players[p].score > snapshot[p]
        /\ Lead(players, p) > Lead(AtSnapshot, p)
        /\ hasWon(players, p, opponentOf(p))

-----------------------------------------------------------------------------
(* Game.js: rounds, turns and phases *)

\* Cards dealt to each player in a round (CARDS_PER_HAND = 5 in the game).
MaxHand == 2
\* Rounds of the match in which cards are played (the round after them is
\* dealt, and no more).
MaxRounds == 1

\* The cards of a round: createHand makes new Card objects for every round,
\* the objects of the round before being dropped by the players and systems.
GameCardIds == 1 .. 2 * MaxHand

\* The slot a card is played to.
slotOf(card) == card - 1

\* The claims made of a card: its type, or the type that follows it.
claimsFor(card) == {dealtType(card), dealtType(card + 1)}

\* validatePlay without its test of the game state.
playableInAnyState(g) == TRUE

\* validatePlay, "check game state": a play is valid only while the game is
\* playing and the phase is placement.
playableState(g) ==
    /\ g.gameState = GAME_STATES.PLAYING
    /\ g.turnPhase = TURN_PHASES.PLACEMENT

\* Game.isPlacementPhaseComplete
isPlacementPhaseComplete(pl) == \A p \in PlayerIds : pl[p].hand = {}

\* Game.switchPlayer
switchPlayer(g) ==
    [g EXCEPT !.currentPlayer = IF @ = "human" THEN "ai" ELSE "human"]

RECURSIVE endTurn(_, _)

\* Game.startTurn: nothing when the game is not active or is paused; a player
\* without cards ends the turn at once; the AI starts handleAITurn, which
\* first waits delay(1000); the human is waited for.
startTurn(g, pl) ==
    IF ~g.isGameActive \/ g.isPaused
    THEN [g EXCEPT !.pc = "idle"]
    ELSE IF ~canMove(pl, g.currentPlayer)
         THEN endTurn(g, pl)
         ELSE IF g.currentPlayer = "ai"
              THEN [g EXCEPT !.pc = "aiDelay"]
              ELSE [g EXCEPT !.pc = "idle"]

\* Game.endTurn: startBattlePhase when both hands are empty (the phase
\* becomes battle and resolveAllBattles is called), otherwise switchPlayer
\* and startTurn.
endTurn(g, pl) ==
    IF isPlacementPhaseComplete(pl)
    THEN [g EXCEPT !.turnPhase = TURN_PHASES.BATTLE, !.pc = "battle"]
    ELSE startTurn(switchPlayer(g), pl)

\* checkVictoryConditions naming whoever has reached VICTORY_POINTS.
checkVictoryByPointsOnly(pl) ==
    IF pl["human"].score >= VICTORY_POINTS THEN "human"
    ELSE IF pl["ai"].score >= VICTORY_POINTS THEN "ai"
    ELSE Null

\* Game.checkVictoryConditions: the human first, then the AI, else null.
checkVictoryConditions(pl) ==
    IF hasWon(pl, "human", "ai") THEN "human"
    ELSE IF hasWon(pl, "ai", "human") THEN "ai"
    ELSE Null

-----------------------------------------------------------------------------
(* SpecGame: a match followed from the start of one of its rounds, with    *)
(* the scores the rounds before left.  The deal is rock, paper, scissors,  *)
(* ... in the order of the cards, odd cards to the human, even ones to the *)
(* AI; a card is played to the slot of its number.  The flow of the game   *)
(* is either suspended (waiting for the interface, for a delay, for the    *)
(* challenge window) or at a continuation that runs before any other       *)
(* event is handled.                                                       *)

GameScores == {0, VICTORY_POINTS - 1, VICTORY_POINTS}

\* Nobody has won yet when a round starts.
InitGame ==
    /\ cards = [c \in GameCardIds |-> Card(dealtType(c), Null)]
    /\ \E scores \in [PlayerIds -> GameScores] :
          /\ players =
                [p \in PlayerIds |-> [Player EXCEPT !.score = scores[p]]]
          /\ checkVictoryConditions(players) = Null
    /\ GridConstructed
    /\ BattleConstructed
    /\ ChallengeConstructed
    /\ AIConstructed
    /\ earlierMatch = NoEarlierMatch
    /\ ScoreConstructed
    /\ StateConstructed
    /\ game = [gameState |-> GAME_STATES.PLAYING,
               turnPhase |-> TURN_PHASES.SETUP,
               currentPlayer |-> "human",
               roundNumber |-> 1,
               isGameActive |-> TRUE,
               isPaused |-> FALSE,
               waitingForChallenge |-> FALSE,
               totalMoves |-> 0,
               pc |-> "startNewRound"]
    /\ selection = NoSelection
    /\ errorHandling = NoError
    /\ ret = NoReturn

\* The game waits for an event: an action of the interface, a timer.
Suspended ==
    \/ game.pc \in {"idle", "aiDelay", "aiWaiting"}
    \/ game.pc = "battle" /\ battlePc = "delay"

\* handlePlayerAction goes on only when the game is active and not paused.
Accepting == Suspended /\ game.isGameActive /\ ~game.isPaused

\* Game.startNewRound, up to the deal: the phase is setup, the systems are
\* cleared, the players reset, new cards made and dealt.
startNewRound ==
    /\ game.pc = "startNewRound"
    /\ IF ~game.isGameActive
       THEN /\ game' = [game EXCEPT !.pc = "idle"]
            /\ UNCHANGED << cards, players, gridVars, battleVars,
                            challengeVars >>
       ELSE /\ clearGrid
            /\ battleQueue' = << >>
            /\ battleResults' = << >>
            /\ isProcessing' = FALSE
            /\ battlePc' = "idle"
            /\ battleIndex' = 0
            /\ clear
            /\ \E fresh \in {[c \in GameCardIds |-> Card(dealtType(c), Null)]},
                  reset \in {resetForNewRound(
                                resetForNewRound(players, "human"), "ai")} :
                \E human \in {dealCards(
                                 [players |-> reset, cards |-> fresh], "human",
                                 {c \in GameCardIds : ownerOf(c) = "human"})} :
                   \E ai \in {dealCards(human, "ai",
                                 {c \in GameCardIds : ownerOf(c) = "ai"})} :
                      /\ players' = ai.players
                      /\ cards' = ai.cards
                      /\ game' = [game EXCEPT
                                     !.turnPhase = TURN_PHASES.SETUP,
                                     !.waitingForChallenge = FALSE,
                                     !.pc = "startPlacement"]
    /\ ret' = NoReturn
    /\ UNCHANGED << scoreVars, aiPlayer, earlierMatch, stateManager, reentrantPasses, errorHandling, selection >>

\* Game.startNewRound, "start placement phase": the phase is placement and
\* startTurn is called.
placementStarts ==
    /\ game.pc = "startPlacement"
    /\ game' = startTurn([game EXCEPT !.turnPhase = TURN_PHASES.PLACEMENT],
                         players)
    /\ ret' = NoReturn
    /\ UNCHANGED << cards, players, gridVars, battleVars, challengeVars,
                    scoreVars, aiPlayer, earlierMatch, stateManager, reentrantPasses, errorHandling, selection >>

\* handleCardSelection (ui:card_selected): the human selects a card on its
\* turn of the placement phase.
cardSelected(card) ==
    /\ game.roundNumber <= MaxRounds
    /\ Accepting
    /\ game.currentPlayer = "human"
    /\ game.turnPhase = TURN_PHASES.PLACEMENT
    /\ \E r \in {selectCard([players |-> players, cards |-> cards],
                            "human", card)} :
          /\ players' = r.players
          /\ cards' = r.cards
    /\ ret' = NoReturn
    /\ UNCHANGED << gridVars, battleVars, challengeVars, scoreVars, aiPlayer, earlierMatch, stateManager, reentrantPasses, errorHandling, selection, game >>

\* handlePlayCancellation (ui:play_cancelled)
playCancelled ==
    /\ Accepting
    /\ \E r \in {deselectCard([players |-> players, cards |-> cards],
                              "human")} :
          /\ players' = r.players
          /\ cards' = r.cards
    /\ ret' = NoReturn
    /\ UNCHANGED << gridVars, battleVars, challengeVars, scoreVars, aiPlayer, earlierMatch, stateManager, reentrantPasses, errorHandling, selection, game >>

\* handlePlayConfirmation (ui:play_confirmed): executePlay of the selected
\* card by the human, who is not waited for, then endTurn.
playConfirmed(claimedType) ==
    /\ game.roundNumber <= MaxRounds
    /\ Accepting
    /\ game.currentPlayer = "human"
    /\ players["human"].selectedCard # NoCard
    /\ playableState(game)
    /\ \E card \in {players["human"].selectedCard} :
          /\ claimedType \in claimsFor(card)
          /\ playExecuted("human", card, slotOf(card), claimedType)
    /\ game' = endTurn([game EXCEPT !.totalMoves = @ + 1], players')
    /\ ret' = NoReturn
    /\ UNCHANGED << battleVars, scoreVars, aiPlayer, earlierMatch, stateManager, reentrantPasses, errorHandling, selection >>

\* handleAITurn after its delay: makeAIDecision and executePlay, which then
\* waits for the challenge window; a play that is not valid any more (the
\* game is not playing) throws, and the turn is ended without a play.
aiTurn(card, claimedType) ==
    /\ game.roundNumber <= MaxRounds
    /\ game.pc = "aiDelay"
    /\ card \in players["ai"].hand
    /\ claimedType \in claimsFor(card)
    /\ IF playableState(game)
       THEN /\ playExecuted("ai", card, slotOf(card), claimedType)
            /\ game' = [game EXCEPT !.totalMoves = @ + 1,
                                    !.waitingForChallenge = TRUE,
                                    !.pc = "aiWaiting"]
       ELSE /\ game' = endTurn(game, players)
            /\ UNCHANGED << cards, players, gridVars, challengeVars >>
    /\ ret' = NoReturn
    /\ UNCHANGED << battleVars, scoreVars, aiPlayer, earlierMatch, stateManager, reentrantPasses, errorHandling, selection >>

\* The end of the wait clearing waitingForChallenge only.
challengeWaitFlagOnly(g, pl) == [g EXCEPT !.waitingForChallenge = FALSE]

\* What the end of the wait for the challenge window does: the listener
\* clears waitingForChallenge, and executePlay, if it is waiting, goes on to
\* endTurn.
challengeWaitOver(g, pl) ==
    IF g.pc = "aiWaiting"
    THEN endTurn([g EXCEPT !.waitingForChallenge = FALSE], pl)
    ELSE [g EXCEPT !.waitingForChallenge = FALSE]

\* handleChallenge (ui:challenge_made): the human challenges; an accepted
\* challenge emits CHALLENGE_MADE, which ends the wait of executePlay.
humanChallenges ==
    /\ Accepting
    /\ makeChallenge("human")
    /\ game' = IF challengeRefusal("human") = Null
               THEN challengeWaitOver(game, players')
               ELSE game
    /\ UNCHANGED << gridVars, battleVars, scoreVars, aiPlayer, earlierMatch, stateManager, reentrantPasses, errorHandling, selection >>

\* The timer of the challenge window expires: closeChallengeWindow emits
\* CHALLENGE_WINDOW_CLOSED, which ends the wait of executePlay (whose own
\* timeout, armed later for the same time, is then cleared).
challengeWindowExpires(timer) ==
    /\ Suspended
    /\ timerFires(timer)
    /\ game' = challengeWaitOver(game, players)
    /\ ret' = NoReturn
    /\ UNCHANGED << cards, players, gridVars, battleVars, scoreVars, aiPlayer, earlierMatch, stateManager, reentrantPasses, errorHandling, selection >>

\* Game.pauseGame
pauseGame ==
    /\ Suspended
    /\ game.isGameActive /\ ~game.isPaused
    /\ game' = [game EXCEPT !.isPaused = TRUE,
                            !.gameState = GAME_STATES.PAUSED]
    /\ ret' = NoReturn
    /\ UNCHANGED << cards, players, gridVars, battleVars, challengeVars,
                    scoreVars, aiPlayer, earlierMatch, stateManager, reentrantPasses, errorHandling, selection >>

\* Game.resumeGame
resumeGame ==
    /\ Suspended
    /\ game.isGameActive /\ game.isPaused
    /\ game' = [game EXCEPT !.isPaused = FALSE,
                            !.gameState = GAME_STATES.PLAYING]
    /\ ret' = NoReturn
    /\ UNCHANGED << cards, players, gridVars, battleVars, challengeVars,
                    scoreVars, aiPlayer, earlierMatch, stateManager, reentrantPasses, errorHandling, selection >>

\* startBattlePhase calls resolveAllBattles.
battlePhaseStarts ==
    /\ game.pc = "battle"
    /\ resolveAllBattles

\* resolveAllBattles goes on after its delay.
battlePhaseResumes ==
    /\ game.pc = "battle"
    /\ resumeAfterDelay

\* Game.startScoringPhase, once resolveAllBattles has returned: the victory
\* conditions are checked; endGame for a winner, otherwise endRound, which
\* counts the round and calls startNewRound.
startScoringPhase ==
    /\ game.pc = "battle"
    /\ battlePc = "done"
    /\ \E winner \in {checkVictoryConditions(players)} :
          /\ game' = IF winner # Null
                     THEN [game EXCEPT
                              !.turnPhase = TURN_PHASES.SCORING,
                              !.isGameActive = FALSE,
                              !.gameState = GAME_STATES.GAME_OVER,
                              !.pc = "idle"]
                     ELSE [game EXCEPT
                              !.turnPhase = TURN_PHASES.SCORING,
                              !.roundNumber = @ + 1,
                              !.pc = "startNewRound"]
          /\ ret' = [op |-> "checkVictoryConditions", winner |-> winner]
    /\ UNCHANGED << cards, players, gridVars, battleVars, challengeVars,
                    scoreVars, aiPlayer, earlierMatch, stateManager, reentrantPasses, errorHandling, selection >>

NextGame ==
    \/ startNewRound
    \/ placementStarts
    \/ \E card \in GameCardIds : cardSelected(card)
    \/ playCancelled
    \/ \E claimedType \in CARD_TYPES : playConfirmed(claimedType)
    \/ \E card \in GameCardIds, claimedType \in CARD_TYPES :
          aiTurn(card, claimedType)
    \/ humanChallenges
    \/ \E timer \in pendingTimers : challengeWindowExpires(timer)
    \/ pauseGame
    \/ resumeGame
    \/ battlePhaseStarts
    \/ battlePhaseResumes
    \/ startScoringPhase

SpecGame == InitGame /\ [][NextGame]_vars

-----------------------------------------------------------------------------
(* The game: what is claimed of it *)

OnGrid == {CARD_STATES.PLACED, CARD_STATES.REVEALED}

\* C16: for every card, after any sequence of game operations (deal, select,
\* deselect, play, challenge reveal, the reset of a new round), the position
\* of the card is non-null exactly when its state is placed or revealed.
C16_PositionIffOnGrid ==
    \A c \in DOMAIN cards :
        (cards[c].position # NoPosition) <=> (cards[c].state \in OnGrid)

\* A challenged card lies revealed on the grid while the human has selected
\* another card of its hand.
C16_Witness ==
    /\ \E c \in DOMAIN cards :
          /\ cards[c].state = CARD_STATES.REVEALED
          /\ cards[c].position # NoPosition
    /\ \E c \in DOMAIN cards :
          /\ cards[c].state = CARD_STATES.SELECTED
          /\ cards[c].position = NoPosition
          /\ players["human"].selectedCard = c

GameOver(g) == g.gameState = GAME_STATES.GAME_OVER

\* The step in which startScoringPhase evaluates the victory conditions.
VictoryEvaluated ==
    /\ game.turnPhase = TURN_PHASES.BATTLE
    /\ game'.turnPhase = TURN_PHASES.SCORING

\* C18: the match enters GameOver only from the scoring phase of a round,
\* and only for a player for whom hasWon holds at that moment; the victory
\* conditions are evaluated exactly once per round (every evaluation ends the
\* round, by the end of the match or by the next round, and a round ends in
\* no other way); a player whose score reaches VICTORY_POINTS during
\* placement or battle is not declared the winner before scoring; after
\* GameOver no further round starts.
C18_GameOverFromScoring ==
    [][/\ (GameOver(game') /\ ~GameOver(game)) =>
              /\ VictoryEvaluated
              /\ ret'.op = "checkVictoryConditions"
              /\ ret'.winner \in PlayerIds
              /\ hasWon(players', ret'.winner, opponentOf(ret'.winner))
       /\ VictoryEvaluated =>
              \/ GameOver(game') /\ game'.roundNumber = game.roundNumber
              \/ ~GameOver(game') /\ game'.roundNumber = game.roundNumber + 1
       /\ game'.roundNumber # game.roundNumber => VictoryEvaluated
       /\ game'.turnPhase \in {TURN_PHASES.PLACEMENT, TURN_PHASES.BATTLE} =>
              ~GameOver(game')
       /\ GameOver(game) =>
              /\ game' = game
              /\ cards' = cards
              /\ players' = players
      ]_vars

\* The match is over at the scoring of a round, the loser too having
\* VICTORY_POINTS.
C18_Witness ==
    /\ GameOver(game)
    /\ game.turnPhase = TURN_PHASES.SCORING
    /\ ret.op = "checkVictoryConditions"
    /\ ret.winner \in PlayerIds
    /\ \A p \in PlayerIds : players[p].score >= VICTORY_POINTS

\* A play is completed: executePlay has counted the move.
CompletedPlay == game'.totalMoves = game.totalMoves + 1

\* C20: during the placement phase, while both players still hold cards,
\* consecutive completed plays are made by different players; the battle
\* phase starts only once both hands are empty.
C20_PlaysAlternate ==
    [][/\ ( /\ CompletedPlay
            /\ lastPlayedCard # NoPlay
            /\ \A p \in PlayerIds : players[p].hand # {} ) =>
              lastPlayedCard'.player # lastPlayedCard.player
       /\ game'.turnPhase = TURN_PHASES.BATTLE =>
              \A p \in PlayerIds : players'[p].hand = {}
      ]_vars

\* The human has completed two plays in the placement phase while the AI
\* has completed none and still holds its whole hand.
C20_Witness ==
    /\ game.turnPhase = TURN_PHASES.PLACEMENT
    /\ players["human"].stats.cardsPlayed = 2
    /\ players["ai"].stats.cardsPlayed = 0
    /\ Cardinality(players["ai"].hand) = MaxHand

\* The order of the phases of a round, and of the rounds.
PhaseOrder ==
    {<< TURN_PHASES.SETUP, TURN_PHASES.PLACEMENT >>,
     << TURN_PHASES.PLACEMENT, TURN_PHASES.BATTLE >>,
     << TURN_PHASES.BATTLE, TURN_PHASES.SCORING >>,
     << TURN_PHASES.SCORING, TURN_PHASES.SETUP >>}

WaitingForChallenge(g) == g.pc = "aiWaiting"

\* The window of the registered play is open before the step and not after
\* it: it was closed, or the play was challenged.
WindowEnds ==
    /\ lastPlayedCard # NoPlay
    /\ lastPlayedCard.challengeable
    /\ lastPlayedCard' # NoPlay
    /\ lastPlayedCard'.card = lastPlayedCard.card
    /\ ~lastPlayedCard'.challengeable

-----------------------------------------------------------------------------
(* GameState: the states of the application and their transitions *)

\* State changes and notifications followed.
MaxStateChanges == 3

STATE_HISTORY_LIMIT == 50

\* validTransitions of isValidStateTransition
validTransitions ==
    [s \in GameStateValues |->
        CASE s = GAME_STATES.MENU ->
                 {GAME_STATES.LOADING, GAME_STATES.TUTORIAL}
          [] s = GAME_STATES.LOADING ->
                 {GAME_STATES.PLAYING, GAME_STATES.MENU}
          [] s = GAME_STATES.PLAYING ->
                 {GAME_STATES.PAUSED, GAME_STATES.ROUND_END,
                  GAME_STATES.GAME_OVER, GAME_STATES.MENU}
          [] s = GAME_STATES.PAUSED ->
                 {GAME_STATES.PLAYING, GAME_STATES.MENU}
          [] s = GAME_STATES.ROUND_END ->
                 {GAME_STATES.PLAYING, GAME_STATES.GAME_OVER,
                  GAME_STATES.MENU}
          [] s = GAME_STATES.GAME_OVER ->
                 {GAME_STATES.MENU, GAME_STATES.LOADING}
          [] s = GAME_STATES.TUTORIAL ->
                 {GAME_STATES.MENU, GAME_STATES.PLAYING}]

\* isValidStateTransition accepting a transition to the current state too.
isValidOrSameState(fromState, toState) ==
    /\ fromState \in GameStateValues
    /\ toState \in validTransitions[fromState] \cup {fromState}

\* GameState.isValidStateTransition
isValidStateTransition(fromState, toState) ==
    /\ fromState \in GameStateValues
    /\ toState \in validTransitions[fromState]

\* GameState.notifyListeners, for the listener of every state.
notifyListeners(sm, oldState, newState) ==
    [sm EXCEPT !.notified = Append(@, << oldState, newState >>)]

\* The history with one more entry, the oldest dropped beyond the limit.
stateRecorded(h, oldState, newState, data) ==
    LET pushed == Append(h, [from |-> oldState, to |-> newState,
                             data |-> data])
    IN  IF Len(pushed) > STATE_HISTORY_LIMIT THEN Tail(pushed) ELSE pushed

\* GameState.changeState on the state manager sm: the manager after the
\* call and the value returned.
changeState(sm, newState, data) ==
    IF newState \notin GameStateValues
    THEN [sm |-> sm, success |-> FALSE]
    ELSE IF ~isValidStateTransition(sm.state, newState)
         THEN [sm |-> sm, success |-> FALSE]
         ELSE [sm |-> notifyListeners(
                         [sm EXCEPT
                             !.previousState = sm.state,
                             !.state = newState,
                             !.stateData[newState] =
                                 [stored |-> TRUE, data |-> data,
                                  forced |-> FALSE],
                             !.stateHistory =
                                 stateRecorded(@, sm.state, newState, data)],
                         sm.state, newState),
               success |-> TRUE]

\* GameState.forceState
forceState(sm, newState, data) ==
    IF newState \notin GameStateValues
    THEN [sm |-> sm, success |-> FALSE]
    ELSE [sm |-> notifyListeners(
                    [sm EXCEPT
                        !.previousState = sm.state,
                        !.state = newState,
                        !.stateData[newState] =
                            [stored |-> TRUE, data |-> data,
                             forced |-> TRUE]],
                    sm.state, newState),
          success |-> TRUE]

\* GameState.revertToPreviousState
revertToPreviousState(sm) ==
    IF sm.previousState = Null
    THEN [sm |-> sm, success |-> FALSE]
    ELSE changeState(sm, sm.previousState, "revert")

\* GameState.reset
resetState(sm) ==
    notifyListeners(
        [sm EXCEPT !.state = GAME_STATES.MENU,
                   !.previousState = Null,
                   !.stateHistory = << >>,
                   !.stateData = [s \in GameStateValues |-> NoStateData]],
        sm.state, GAME_STATES.MENU)

-----------------------------------------------------------------------------
(* SpecState: the state manager under any calls *)

StateInputs == GameStateValues \cup {"unknown"}

InitState ==
    /\ cards = [c \in CardIds |-> Card(dealtType(c), ownerOf(c))]
    /\ PlayersConstructed
    /\ GridConstructed
    /\ BattleConstructed
    /\ ChallengeConstructed
    /\ AIConstructed
    /\ earlierMatch = NoEarlierMatch
    /\ ScoreConstructed
    /\ GameConstructed
    /\ StateConstructed
    /\ ret = NoReturn

stateFrame ==
    UNCHANGED << cards, players, gridVars, battleVars, challengeVars,
                 scoreVars, aiPlayer, earlierMatch, game, reentrantPasses,
                 selection, errorHandling >>

stateChanged(newState) ==
    /\ Len(stateManager.notified) < MaxStateChanges
    /\ \E r \in {changeState(stateManager, newState, "data")} :
          /\ stateManager' = r.sm
          /\ ret' = [op |-> "changeState", to |-> newState,
                     success |-> r.success]
    /\ stateFrame

stateForced(newState) ==
    /\ Len(stateManager.notified) < MaxStateChanges
    /\ \E r \in {forceState(stateManager, newState, "data")} :
          /\ stateManager' = r.sm
          /\ ret' = [op |-> "forceState", to |-> newState,
                     success |-> r.success]
    /\ stateFrame

stateReverted ==
    /\ Len(stateManager.notified) < MaxStateChanges
    /\ \E r \in {revertToPreviousState(stateManager)} :
          /\ stateManager' = r.sm
          /\ ret' = [op |-> "revertToPreviousState",
                     to |-> stateManager.previousState,
                     success |-> r.success]
    /\ stateFrame

stateReset ==
    /\ Len(stateManager.notified) < MaxStateChanges
    /\ stateManager' = resetState(stateManager)
    /\ ret' = [op |-> "reset", to |-> GAME_STATES.MENU, success |-> TRUE]
    /\ stateFrame

NextState ==
    \/ \E newState \in StateInputs : stateChanged(newState)
    \/ \E newState \in StateInputs : stateForced(newState)
    \/ stateReverted
    \/ stateReset

SpecState == InitState /\ [][NextState]_vars

\* The pair of states is in the whitelist of transitions.
Whitelisted(from, to) ==
    /\ from \in GameStateValues
    /\ to \in validTransitions[from]

-----------------------------------------------------------------------------
\* BattleSystem: resolveAllBattles called again while a pass is suspended,
\* interleaved with clear, forceStop and the clears of a new round.

\* The number of further resolveAllBattles calls that get past the flag.
MaxPasses == 1

\* A further pass is suspended in its delay.
reentrantInFlight ==
    \E k \in 1 .. Len(reentrantPasses) : reentrantPasses[k].pc = "delay"

\* this.battleResults.push(result) of a further pass, after processBattle.
reentrantIteration(st, queue, results, i) ==
    \E r \in {processBattle(st, queue[i + 1])} :
        /\ players' = r.players
        /\ cards' = r.cards
        /\ battleResults' = Append(results, r.result)
        /\ isProcessing' = TRUE

\* The end of a further pass: processAdvancements and the finally block.
reentrantFinish(st, queue, results) ==
    \E done \in {processAdvancements(st, queue)} :
        /\ players' = done.players
        /\ cards' = done.cards
        /\ battleResults' = results
        /\ isProcessing' = FALSE
        /\ ret' = [op |-> "resolveAllBattles", results |-> results]

\* resolveAllBattles called while an earlier call has not returned yet.
resolveAllBattlesAgain ==
    /\ battlePc = "delay"
    /\ Len(reentrantPasses) < MaxPasses
    /\ IF isProcessing
       THEN /\ ret' = [op |-> "resolveAllBattles", results |-> battleResults]
            /\ UNCHANGED << cards, players, battleVars, reentrantPasses >>
       ELSE \E st \in {[players |-> players, cards |-> cards]},
               queue \in {identifyBattles} :
                /\ battleQueue' = queue
                /\ IF Len(queue) > TOTAL_POSITIONS
                   THEN /\ battleResults' = << >>
                        /\ isProcessing' = FALSE
                        /\ ret' = [op |-> "resolveAllBattles",
                                   results |-> << >>]
                        /\ reentrantPasses' =
                              Append(reentrantPasses,
                                     [pc |-> "done", index |-> 0])
                        /\ UNCHANGED << cards, players >>
                   ELSE IF Len(queue) > 0
                        THEN /\ reentrantIteration(st, queue, << >>, 0)
                             /\ reentrantPasses' =
                                   Append(reentrantPasses,
                                          [pc |-> "delay", index |-> 0])
                             /\ UNCHANGED ret
                        ELSE /\ reentrantFinish(st, queue, << >>)
                             /\ reentrantPasses' =
                                   Append(reentrantPasses,
                                          [pc |-> "done", index |-> 0])
                /\ UNCHANGED << battlePc, battleIndex >>
    /\ UNCHANGED << gridVars, challengeVars, scoreVars, aiPlayer, earlierMatch, stateManager, game,
                    selection, errorHandling >>

\* A further pass resumed after its delay; it reads this.battleQueue and
\* this.battleResults as they are by then.
reentrantResumes ==
    /\ \E k \in 1 .. Len(reentrantPasses) :
          /\ reentrantPasses[k].pc = "delay"
          /\ LET st == [players |-> players, cards |-> cards]
                 i == reentrantPasses[k].index + 1
             IN  IF i < Len(battleQueue)
                 THEN /\ reentrantIteration(st, battleQueue, battleResults, i)
                      /\ reentrantPasses' =
                            [reentrantPasses EXCEPT ![k].index = i]
                      /\ UNCHANGED ret
                 ELSE /\ reentrantFinish(st, battleQueue, battleResults)
                      /\ reentrantPasses' =
                            [reentrantPasses EXCEPT
                                ![k] = [pc |-> "done", index |-> i]]
    /\ UNCHANGED << battleQueue, battlePc, battleIndex >>
    /\ UNCHANGED << gridVars, challengeVars, scoreVars, aiPlayer, earlierMatch, stateManager, game,
                    selection, errorHandling >>

\* BattleSystem.clear
battleCleared ==
    /\ battleQueue' = << >>
    /\ battleResults' = << >>
    /\ isProcessing' = FALSE
    /\ ret' = NoReturn
    /\ UNCHANGED << cards, players, battlePc, battleIndex, reentrantPasses >>
    /\ UNCHANGED << gridVars, challengeVars, scoreVars, aiPlayer, earlierMatch, stateManager, game,
                    selection, errorHandling >>

\* BattleSystem.forceStop
forceStop ==
    /\ isProcessing' = FALSE
    /\ battleQueue' = << >>
    /\ ret' = NoReturn
    /\ UNCHANGED << cards, players, battleResults, battlePc, battleIndex,
                    reentrantPasses >>
    /\ UNCHANGED << gridVars, challengeVars, scoreVars, aiPlayer, earlierMatch, stateManager, game,
                    selection, errorHandling >>

\* The clears at the start of a new round: gridSystem.clear() and
\* battleSystem.clear().
roundCleared ==
    /\ clearGrid
    /\ battleQueue' = << >>
    /\ battleResults' = << >>
    /\ isProcessing' = FALSE
    /\ ret' = NoReturn
    /\ UNCHANGED << cards, players, battlePc, battleIndex, reentrantPasses >>
    /\ UNCHANGED << challengeVars, scoreVars, aiPlayer, earlierMatch, stateManager, game,
                    selection, errorHandling >>

NextPass ==
    \/ resolveAllBattles
    \/ resumeAfterDelay
    \/ resolveAllBattlesAgain
    \/ reentrantResumes
    \/ battleCleared
    \/ forceStop
    \/ roundCleared

SpecPass == InitBattle /\ [][NextPass]_vars

\* A resolveAllBattles pass has started and has not ended.
PassInFlight == battlePc = "delay" \/ reentrantInFlight

\* C24: while a resolveAllBattles pass is in progress, suspended between two
\* battles included, a further resolveAllBattles call processes no battle
\* and awards no points, whatever clear, forceStop or the clears of a new
\* round did in between: a call that gets past the processing flag leaves the
\* scores, the cards and the results as they were before the call.
C24_OnePassInFlight ==
    [][(PassInFlight /\ Len(reentrantPasses') > Len(reentrantPasses)) =>
          /\ players' = players
          /\ cards' = cards
          /\ battleResults' = battleResults
      ]_vars

\* Two passes are suspended at once, the second one with a battle processed.
C24_Witness ==
    /\ battlePc = "delay"
    /\ reentrantInFlight
    /\ Len(battleResults) > 0

-----------------------------------------------------------------------------
\* Game: the commands of the interface, through handlePlayerAction.

\* The positions and claims the interface sends: two slots the AI does not
\* play to, one position off the grid, two card types and one word that is
\* no card type.
CommandPositions == {slotOf(1), slotOf(3), TOTAL_POSITIONS}
CommandClaims == {"rock", "paper", "lizard"}

\* A round about to be dealt, nobody having scored yet.
InitCommand ==
    /\ cards = [c \in GameCardIds |-> Card(dealtType(c), Null)]
    /\ PlayersConstructed
    /\ GridConstructed
    /\ BattleConstructed
    /\ ChallengeConstructed
    /\ AIConstructed
    /\ earlierMatch = NoEarlierMatch
    /\ ScoreConstructed
    /\ StateConstructed
    /\ game = [gameState |-> GAME_STATES.PLAYING,
               turnPhase |-> TURN_PHASES.SETUP,
               currentPlayer |-> "human",
               roundNumber |-> 1,
               isGameActive |-> TRUE,
               isPaused |-> FALSE,
               waitingForChallenge |-> FALSE,
               totalMoves |-> 0,
               pc |-> "startNewRound"]
    /\ selection = NoSelection
    /\ errorHandling = NoError
    /\ ret = NoReturn

\* executePlay, awaited by handlePlayConfirmation, has returned: the turn it
\* started has come back to a point where the game waits for the interface.
ReturnPending == selection.confirming /\ game.pc = "idle"

\* handlePlayerAction takes the command: the game is active and not paused
\* (and no handler is about to go on).
CommandAccepted == Accepting /\ ~ReturnPending

\* handleCardSelection
handleCardSelection(card) ==
    /\ game.roundNumber <= MaxRounds
    /\ CommandAccepted
    /\ IF \/ game.currentPlayer # "human"
          \/ game.turnPhase # TURN_PHASES.PLACEMENT
       THEN /\ ret' = [op |-> "select_card", card |-> card, value |-> FALSE]
            /\ UNCHANGED << cards, players, selection >>
       ELSE \E r \in {selectCard([players |-> players, cards |-> cards],
                                 "human", card)} :
               /\ players' = r.players
               /\ cards' = r.cards
               /\ selection' = [selection EXCEPT
                                   !.selectedCard = r.selected,
                                   !.selectedPosition = NoPosition,
                                   !.pendingClaim = Null]
               /\ ret' = [op |-> "select_card", card |-> card,
                          value |-> r.selected # NoCard]
    /\ UNCHANGED << gridVars, battleVars, challengeVars, scoreVars, aiPlayer, earlierMatch,
                    stateManager, reentrantPasses, errorHandling, game >>

\* handlePositionSelection
handlePositionSelection(position) ==
    /\ CommandAccepted
    /\ IF game.currentPlayer # "human" \/ selection.selectedCard = NoCard
       THEN /\ ret' = [op |-> "select_position", position |-> position,
                       value |-> FALSE]
            /\ UNCHANGED selection
       ELSE IF isPositionAvailable(position)
            THEN /\ selection' = [selection EXCEPT
                                     !.selectedPosition = position]
                 /\ ret' = [op |-> "select_position", position |-> position,
                            value |-> TRUE]
            ELSE /\ ret' = [op |-> "select_position",
                            position |-> position, value |-> FALSE]
                 /\ UNCHANGED selection
    /\ UNCHANGED << cards, players, gridVars, battleVars, challengeVars,
                    scoreVars, aiPlayer, earlierMatch, stateManager, reentrantPasses, errorHandling, game >>

\* handleClaimSelection
handleClaimSelection(claimedType) ==
    /\ CommandAccepted
    /\ IF game.currentPlayer # "human" \/ selection.selectedCard = NoCard
       THEN /\ ret' = [op |-> "make_claim", claimedType |-> claimedType,
                       value |-> FALSE]
            /\ UNCHANGED selection
       ELSE IF claimedType \in CARD_TYPES
            THEN /\ selection' = [selection EXCEPT
                                     !.pendingClaim = claimedType]
                 /\ ret' = [op |-> "make_claim", claimedType |-> claimedType,
                            value |-> TRUE]
            ELSE /\ ret' = [op |-> "make_claim",
                            claimedType |-> claimedType, value |-> FALSE]
                 /\ UNCHANGED selection
    /\ UNCHANGED << cards, players, gridVars, battleVars, challengeVars,
                    scoreVars, aiPlayer, earlierMatch, stateManager, reentrantPasses, errorHandling, game >>

\* The early return of handlePlayConfirmation.
selectionIncomplete ==
    \/ game.currentPlayer # "human"
    \/ selection.selectedCard = NoCard
    \/ selection.selectedPosition = NoPosition
    \/ selection.pendingClaim = Null

\* handlePlayConfirmation, up to the point where executePlay waits (for the
\* turn of the AI, which endTurn starts); a play that validatePlay refuses
\* throws, and false is returned.
handlePlayConfirmation ==
    /\ game.roundNumber <= MaxRounds
    /\ CommandAccepted
    /\ IF selectionIncomplete
       THEN /\ ret' = [op |-> "confirm_play", value |-> FALSE]
            /\ UNCHANGED << cards, players, gridVars, challengeVars, game,
                            selection >>
       ELSE IF /\ selection.selectedCard \in players["human"].hand
               /\ isPositionAvailable(selection.selectedPosition)
               /\ playableState(game)
            THEN /\ playExecuted("human", selection.selectedCard,
                                 selection.selectedPosition,
                                 selection.pendingClaim)
                 /\ game' = endTurn([game EXCEPT !.totalMoves = @ + 1],
                                    players')
                 /\ selection' = [selection EXCEPT !.confirming = TRUE]
                 /\ ret' = NoReturn
            ELSE /\ ret' = [op |-> "confirm_play", value |-> FALSE]
                 /\ UNCHANGED << cards, players, gridVars, challengeVars,
                                 game, selection >>
    /\ UNCHANGED << battleVars, scoreVars, aiPlayer, earlierMatch, stateManager, reentrantPasses, errorHandling >>

\* handlePlayConfirmation after executePlay has returned: "clear
\* selections", return true.
playConfirmationReturns ==
    /\ ReturnPending
    /\ selection' = NoSelection
    /\ ret' = [op |-> "confirm_play (resumed)", value |-> TRUE]
    /\ UNCHANGED << cards, players, gridVars, battleVars, challengeVars,
                    scoreVars, aiPlayer, earlierMatch, stateManager, reentrantPasses, errorHandling, game >>

\* handlePlayCancellation
handlePlayCancellation ==
    /\ CommandAccepted
    /\ IF selection.selectedCard # NoCard
       THEN \E r \in {deselectCard([players |-> players, cards |-> cards],
                                   "human")} :
               /\ players' = r.players
               /\ cards' = r.cards
       ELSE UNCHANGED << cards, players >>
    /\ selection' = [selection EXCEPT !.selectedCard = NoCard,
                                      !.selectedPosition = NoPosition,
                                      !.pendingClaim = Null]
    /\ ret' = [op |-> "cancel_play", value |-> TRUE]
    /\ UNCHANGED << gridVars, battleVars, challengeVars, scoreVars, aiPlayer, earlierMatch,
                    stateManager, reentrantPasses, errorHandling, game >>

\* challenge_claim: handleChallenge(humanPlayer), which returns false when
\* makeChallenge reports no success.
handleChallenge ==
    /\ ~ReturnPending
    /\ humanChallenges

NextCommand ==
    \/ startNewRound
    \/ placementStarts
    \/ \E card \in GameCardIds : handleCardSelection(card)
    \/ \E position \in CommandPositions : handlePositionSelection(position)
    \/ \E claimedType \in CommandClaims : handleClaimSelection(claimedType)
    \/ handlePlayConfirmation
    \/ playConfirmationReturns
    \/ handlePlayCancellation
    \/ handleChallenge
    \/ \E card \in GameCardIds, claimedType \in CARD_TYPES :
          aiTurn(card, claimedType)
    \/ \E timer \in pendingTimers :
          ~ReturnPending /\ challengeWindowExpires(timer)
    \/ battlePhaseStarts
    \/ battlePhaseResumes
    \/ startScoringPhase

SpecCommand == InitCommand /\ [][NextCommand]_vars

\* The command that has just been handled.
CommandHandled(op) == ret' # ret /\ ret'.op = op

\* handlePlayConfirmation has just been called.
ConfirmCalled ==
    \/ CommandHandled("confirm_play")
    \/ ~selection.confirming /\ selection'.confirming

\* The failing commands: a card that is not in the human's hand or a card
\* selected out of turn, a slot that is not available, a claim that is no
\* card type, a confirmation without a complete selection or out of turn, a
\* challenge of nothing challengeable.
CommandFails ==
    \/ /\ CommandHandled("select_card")
       /\ \/ ret'.card \notin players["human"].hand
          \/ game.currentPlayer # "human"
    \/ /\ CommandHandled("select_position")
       /\ ~isPositionAvailable(ret'.position)
    \/ /\ CommandHandled("make_claim")
       /\ ret'.claimedType \notin CARD_TYPES
    \/ ConfirmCalled /\ selectionIncomplete
    \/ /\ CommandHandled("makeChallenge")
       /\ challengeRefusal("human") # Null

\* The command that has just been handled returned false.
ReturnedFalse ==
    IF ret'.op = "makeChallenge" THEN ~ret'.success
    ELSE ret'.op # "none" /\ ~ret'.value

\* C25: every inbound command that fails returns false and leaves the state
\* of the orchestrator unchanged: the selection, the grid, the hands, the
\* scores, the current player and the phase.
C25_FailedCommandChangesNothing ==
    [][CommandFails =>
          /\ ReturnedFalse
          /\ selection' = selection
          /\ grid' = grid
          /\ \A p \in PlayerIds :
                /\ players'[p].hand = players[p].hand
                /\ players'[p].score = players[p].score
          /\ game'.currentPlayer = game.currentPlayer
          /\ game'.turnPhase = game.turnPhase
      ]_vars

\* A command has just failed while a card was selected.
C25_Witness ==
    /\ ret.op = "select_card"
    /\ ~ret.value
    /\ game.currentPlayer = "human"
    /\ game.turnPhase = TURN_PHASES.PLACEMENT
    /\ players["human"].selectedCard # NoCard

-----------------------------------------------------------------------------
\* Game.handleGameError, with the listener of EVENTS.ERROR that
\* setupEventListeners registers and EventBus.emit, which calls it.

\* The calls of handleGameError the call stack of the engine has room for.
MaxStack == 3

\* A match at any point of its rounds, playing or over.
InitError ==
    /\ cards = [c \in CardIds |-> Card(dealtType(c), ownerOf(c))]
    /\ PlayersConstructed
    /\ GridConstructed
    /\ BattleConstructed
    /\ ChallengeConstructed
    /\ AIConstructed
    /\ earlierMatch = NoEarlierMatch
    /\ ScoreConstructed
    /\ StateConstructed
    /\ \E status \in {GAME_STATES.PLAYING, GAME_STATES.GAME_OVER},
          phase \in {TURN_PHASES[k] : k \in DOMAIN TURN_PHASES},
          player \in PlayerIds,
          round \in 1 .. MaxRounds + 1 :
          /\ status = GAME_STATES.GAME_OVER => phase = TURN_PHASES.SCORING
          /\ game = [gameState |-> status,
                     turnPhase |-> phase,
                     currentPlayer |-> player,
                     roundNumber |-> round,
                     isGameActive |-> status # GAME_STATES.GAME_OVER,
                     isPaused |-> FALSE,
                     waitingForChallenge |-> FALSE,
                     totalMoves |-> 0,
                     pc |-> "idle"]
    /\ selection = NoSelection
    /\ errorHandling = NoError
    /\ ret = NoReturn

\* No call of handleGameError is running.
handlerIdle == errorHandling.pc \in {"idle", "done"}

errorFrame ==
    UNCHANGED << cards, players, gridVars, battleVars, challengeVars,
                 scoreVars, aiPlayer, earlierMatch, stateManager, reentrantPasses, selection >>

\* The body of pauseGame.
paused(g) ==
    IF g.isGameActive /\ ~g.isPaused
    THEN [g EXCEPT !.isPaused = TRUE, !.gameState = GAME_STATES.PAUSED]
    ELSE g

\* A catch of the orchestrator calls handleGameError(error).
handleGameError ==
    /\ handlerIdle
    /\ errorHandling' =
          [pc |-> "emit", depth |-> 1, emitted |-> 0,
           wasActive |-> game.isGameActive /\ ~game.isPaused]
    /\ ret' = NoReturn
    /\ UNCHANGED game
    /\ errorFrame

\* eventBus.emit(EVENTS.ERROR, ...) in handleGameError: emit calls the
\* listeners of the event, among them the one of setupEventListeners, which
\* calls handleGameError again.
errorEmitted ==
    /\ errorHandling.pc = "emit"
    /\ errorHandling.depth < MaxStack
    /\ errorHandling' = [errorHandling EXCEPT !.depth = @ + 1,
                                              !.emitted = @ + 1]
    /\ ret' = NoReturn
    /\ UNCHANGED game
    /\ errorFrame

\* The call stack is exhausted: the RangeError of the innermost call is
\* caught by the try around the listener in the emit below it.
stackExhausted ==
    /\ errorHandling.pc = "emit"
    /\ errorHandling.depth = MaxStack
    /\ errorHandling' = [errorHandling EXCEPT !.pc = "unwind",
                                              !.depth = @ - 1]
    /\ ret' = NoReturn
    /\ UNCHANGED game
    /\ errorFrame

\* emit has returned to handleGameError: pauseGame when the game is active
\* and not paused, and the call returns.  Just below the top of the stack
\* pauseGame may itself run out of stack before it assigns anything.
handlerReturns ==
    /\ errorHandling.pc = "unwind"
    /\ errorHandling.depth > 0
    /\ \E overflows \in (IF /\ errorHandling.depth = MaxStack - 1
                            /\ errorHandling.depth > 1
                         THEN BOOLEAN ELSE {FALSE}) :
          game' = IF overflows THEN game ELSE paused(game)
    /\ errorHandling' =
          [errorHandling EXCEPT
              !.depth = @ - 1,
              !.pc = IF errorHandling.depth = 1 THEN "done" ELSE "unwind"]
    /\ ret' = NoReturn
    /\ errorFrame

\* pauseGame and resumeGame from the interface, between two failures.
pausedByUser == handlerIdle /\ pauseGame
resumedByUser == handlerIdle /\ resumeGame

NextError ==
    \/ handleGameError
    \/ errorEmitted
    \/ stackExhausted
    \/ handlerReturns
    \/ pausedByUser
    \/ resumedByUser

SpecError == InitError /\ [][NextError]_vars

\* C26: when a failure reaches handleGameError while the match is active and
\* not paused, handling completes in a number of steps the handler itself
\* bounds -- handleGameError is not entered again while it runs -- having
\* emitted the error notification once and left the match paused.
C26_ErrorHandlingBounded ==
    /\ errorHandling.depth <= 1
    /\ (errorHandling.pc = "done" /\ errorHandling.wasActive) =>
          /\ errorHandling.emitted = 1
          /\ game.isPaused
          /\ game.gameState = GAME_STATES.PAUSED

\* The handling of a failure that came while the match was active and not
\* paused has ended, with the match paused.
C26_Witness ==
    /\ errorHandling.pc = "done"
    /\ errorHandling.wasActive
    /\ errorHandling.emitted > 1
    /\ game.isPaused

-----------------------------------------------------------------------------
\* GridSystem: coordsToPosition and positionToCoords, each called and its
\* result converted back.

\* How far outside the grid the rows, columns and positions passed go.
MaxOutside == 3

CoordRows == -MaxOutside .. GRID_HEIGHT - 1 + MaxOutside
CoordCols == -MaxOutside .. GRID_WIDTH - 1 + MaxOutside
CoordPositions == -MaxOutside .. TOTAL_POSITIONS - 1 + MaxOutside

InitCoords ==
    /\ cards = [c \in CardIds |-> Card(dealtType(c), ownerOf(c))]
    /\ PlayersConstructed
    /\ GridConstructed
    /\ BattleConstructed
    /\ ChallengeConstructed
    /\ AIConstructed
    /\ earlierMatch = NoEarlierMatch
    /\ ScoreConstructed
    /\ GameConstructed
    /\ StateConstructed
    /\ ret = NoReturn

coordsFrame ==
    UNCHANGED << cards, players, gridVars, battleVars, challengeVars,
                 scoreVars, aiPlayer, earlierMatch, game, stateManager, reentrantPasses, selection,
                 errorHandling >>

\* coordsToPosition(row, col), then positionToCoords of the position it
\* returned.
coordsConverted(row, col) ==
    /\ ret' = IF invalidCoordinates(row, col)
              THEN [op |-> "coordsToPosition", row |-> row, col |-> col,
                    thrown |-> TRUE, value |-> NoPosition, back |-> Thrown]
              ELSE [op |-> "coordsToPosition", row |-> row, col |-> col,
                    thrown |-> FALSE, value |-> coordsToPosition(row, col),
                    back |-> positionToCoords(coordsToPosition(row, col))]
    /\ coordsFrame

\* positionToCoords(position), then coordsToPosition of the coordinates it
\* returned.
positionConverted(position) ==
    /\ \E coords \in {positionToCoords(position)} :
          ret' = IF coords = Thrown
                 THEN [op |-> "positionToCoords", position |-> position,
                       thrown |-> TRUE, value |-> Thrown,
                       back |-> NoPosition]
                 ELSE [op |-> "positionToCoords", position |-> position,
                       thrown |-> FALSE, value |-> coords,
                       back |-> coordsToPosition(coords.row, coords.col)]
    /\ coordsFrame

NextCoords ==
    \/ \E row \in CoordRows, col \in CoordCols : coordsConverted(row, col)
    \/ \E position \in CoordPositions : positionConverted(position)

SpecCoords == InitCoords /\ [][NextCoords]_vars

\* C27: for every row in 0..height-1 and column in 0..width-1,
\* positionToCoords(coordsToPosition(row, col)) = (row, col); for every
\* position p in 0..totalPositions-1, coordsToPosition(positionToCoords(p))
\* = p, with index = row * width + col; a row, column or position outside
\* these ranges is rejected with an error.
C27_CoordsRoundTrip ==
    /\ ret.op = "coordsToPosition" =>
          IF /\ ret.row \in 0 .. GRID_HEIGHT - 1
             /\ ret.col \in 0 .. GRID_WIDTH - 1
          THEN /\ ~ret.thrown
               /\ ret.value = ret.row * GRID_WIDTH + ret.col
               /\ ret.back = [row |-> ret.row, col |-> ret.col]
          ELSE ret.thrown
    /\ ret.op = "positionToCoords" =>
          IF ret.position \in 0 .. TOTAL_POSITIONS - 1
          THEN /\ ~ret.thrown
               /\ ret.position = ret.value.row * GRID_WIDTH + ret.value.col
               /\ ret.value.row \in 0 .. GRID_HEIGHT - 1
               /\ ret.value.col \in 0 .. GRID_WIDTH - 1
               /\ ret.back = ret.position
          ELSE ret.thrown

\* The last slot of the grid converted to the last row and column, and back.
C27_Witness ==
    /\ ret.op = "positionToCoords"
    /\ ret.position = TOTAL_POSITIONS - 1
    /\ ret.value = [row |-> GRID_HEIGHT - 1, col |-> GRID_WIDTH - 1]
    /\ ret.back = TOTAL_POSITIONS - 1

-----------------------------------------------------------------------------
\* BattleSystem.processBattle: the records of the battle histories.

\* The record a battle leaves a card names the other card, with its type
\* and position.
NamesOpponent(record, own, other) ==
    /\ record.opponent = other.card
    /\ record.opponentType = cards[other.card].type
    /\ record.opponentPosition = other.position
    /\ record.position = own.position

OppositeResults(result1, result2) ==
    \/ result1 = BATTLE_RESULTS.WIN /\ result2 = BATTLE_RESULTS.LOSE
    \/ result1 = BATTLE_RESULTS.LOSE /\ result2 = BATTLE_RESULTS.WIN
    \/ result1 = "tie" /\ result2 = "tie"

\* C29: each resolved battle appends exactly one record to the battle
\* history of each of its two cards, with opposite outcomes (win and lose,
\* or tie on both), and each record names the other card of the pair as
\* opponent, with that card's type and position.
C29_SymmetricBattleRecords ==
    [][\A n \in 1 .. TOTAL_POSITIONS :
          ResolvesBattle(n) =>
              LET battle == battleResults'[n].battle
                  first == [card |-> battle.card1,
                            position |-> battle.position1]
                  second == [card |-> battle.card2,
                             position |-> battle.position2]
                  history1 == cards'[battle.card1].battleHistory
                  history2 == cards'[battle.card2].battleHistory
              IN  /\ Len(history1) = Len(cards[battle.card1].battleHistory) + 1
                  /\ Len(history2) = Len(cards[battle.card2].battleHistory) + 1
                  /\ OppositeResults(history1[Len(history1)].result,
                                     history2[Len(history2)].result)
                  /\ NamesOpponent(history1[Len(history1)], first, second)
                  /\ NamesOpponent(history2[Len(history2)], second, first)
      ]_vars

\* A battle the second card of the pair has won is resolved.
C29_Witness ==
    /\ Len(battleResults) = 1
    /\ battleResults[1].winner = battleResults[1].battle.card2
    /\ Len(cards[battleResults[1].battle.card1].battleHistory) = 1

-----------------------------------------------------------------------------
\* ScoreSystem: the score history near its limit.

\* The record of awardPoints(human, 0) at a score of 0.
EntryRecord ==
    [kind |-> "award", player |-> "human", points |-> 0, requested |-> 0,
     reason |-> "advancement", oldScore |-> 0, newScore |-> 0]

\* The records of a history that are not entry records.
LaterRecords(history) ==
    Cardinality({i \in 1 .. Len(history) : history[i] # EntryRecord})

\* A score system after awardPoints(human, 0) has been called one time less
\* than the limit, or the limit's times or more.
InitHistory ==
    /\ cards = [c \in CardIds |-> Card(dealtType(c), ownerOf(c))]
    /\ PlayersConstructed
    /\ GridConstructed
    /\ BattleConstructed
    /\ ChallengeConstructed
    /\ AIConstructed
    /\ earlierMatch = NoEarlierMatch
    /\ \E n \in {SCORE_HISTORY_LIMIT - 1, SCORE_HISTORY_LIMIT} :
          scoreHistory = [i \in 1 .. n |-> EntryRecord]
    /\ snapshot = [p \in PlayerIds |-> players[p].score]
    /\ achievements = [p \in PlayerIds |-> {}]
    /\ unlockedEvents = << >>
    /\ GameConstructed
    /\ StateConstructed
    /\ ret = NoReturn

historyFrame ==
    UNCHANGED << cards, gridVars, battleVars, challengeVars, snapshot, aiPlayer, earlierMatch,
                 game, stateManager, reentrantPasses, selection,
                 errorHandling >>

pointsAwardedLate(p, points) ==
    /\ players[p].score + points <= MaxPoints
    /\ awardPoints(p, points, "advancement")
    /\ LaterRecords(scoreHistory') <= MaxScoreCalls
    /\ historyFrame

pointsDeductedLate(p, points) ==
    /\ Len(scoreHistory) < SCORE_HISTORY_LIMIT + MaxScoreCalls
    /\ deductPoints(p, points, "penalty")
    /\ LaterRecords(scoreHistory') <= MaxScoreCalls
    /\ UNCHANGED << achievements, unlockedEvents >>
    /\ historyFrame

NextHistory ==
    \/ \E p \in PlayerIds, points \in 0 .. MaxPoints :
          pointsAwardedLate(p, points)
    \/ \E p \in PlayerIds, points \in 0 .. MaxPoints :
          pointsDeductedLate(p, points)

SpecHistory == InitHistory /\ [][NextHistory]_vars

\* The history with its oldest record evicted when it is over the limit.
Evicted(history) ==
    IF Len(history) > SCORE_HISTORY_LIMIT THEN Tail(history) ELSE history

\* C30: after any sequence of awardPoints and deductPoints calls, every score
\* change has appended one record, and the score history holds at most
\* SCORE_HISTORY_LIMIT (100) records, the oldest being evicted first.
C30_ScoreHistoryBounded ==
    [][ret'.op \in {"awardPoints", "deductPoints"} =>
          /\ Len(scoreHistory') > 0
          /\ scoreHistory' =
                Evicted(Append(scoreHistory,
                               scoreHistory'[Len(scoreHistory')]))
          /\ scoreHistory'[Len(scoreHistory')].player = ret'.player
          /\ scoreHistory'[Len(scoreHistory')].oldScore =
                players[ret'.player].score
          /\ scoreHistory'[Len(scoreHistory')].newScore =
                players'[ret'.player].score
          /\ Len(scoreHistory') <= SCORE_HISTORY_LIMIT
      ]_vars

\* A deduction has been recorded in a history that was full.
C30_Witness ==
    /\ Len(scoreHistory) > SCORE_HISTORY_LIMIT
    /\ scoreHistory[Len(scoreHistory)].kind = "deduct"

-----------------------------------------------------------------------------
(* SpecAchievement: ScoreSystem.awardPoints, deductPoints and reset on a   *)
(* score system whose players cross the thresholds of the achievements,    *)
(* drop back and cross them again.                                         *)

\* The points of one call: none, and enough to cross one threshold or two.
AchievementPoints == {0, 5, 10}
\* The reasons given to awardPoints.
ScoreReasons == {"battle_win", "advancement"}
\* Calls recorded between two resets.
MaxAchievementCalls == 3
\* The points a player is awarded in all (stats.totalPoints) stay at or
\* under the highest threshold of checkAchievements.
MaxAchievementScore == 20

\* The ids checkAchievements and checkComboAchievements unlock.
AchievementIds ==
    {"first_score", "score_5", "score_10", "score_20", "win_streak",
     "big_score"}

\* A new ScoreSystem and two new players.
InitAchievement ==
    /\ cards = [c \in CardIds |-> Card(dealtType(c), ownerOf(c))]
    /\ PlayersConstructed
    /\ GridConstructed
    /\ BattleConstructed
    /\ ChallengeConstructed
    /\ AIConstructed
    /\ earlierMatch = NoEarlierMatch
    /\ ScoreConstructed
    /\ GameConstructed
    /\ StateConstructed
    /\ ret = NoReturn

achievementFrame ==
    UNCHANGED << cards, gridVars, battleVars, challengeVars, snapshot, aiPlayer, earlierMatch,
                 game, stateManager, reentrantPasses, selection,
                 errorHandling >>

achievementAward(p, points, reason) ==
    /\ Len(scoreHistory) < MaxAchievementCalls
    /\ players[p].stats.totalPoints + points <= MaxAchievementScore
    /\ awardPoints(p, points, reason)
    /\ achievementFrame

achievementDeduct(p, points) ==
    /\ Len(scoreHistory) < MaxAchievementCalls
    /\ deductPoints(p, points, "penalty")
    /\ UNCHANGED << achievements, unlockedEvents >>
    /\ achievementFrame

\* ScoreSystem.reset(): the history and the achievements are cleared (the
\* multipliers and listeners, of which there are none, too); the players
\* keep their scores.
resetScores ==
    /\ scoreHistory' = << >>
    /\ achievements' = [p \in PlayerIds |-> {}]
    /\ unlockedEvents' = << >>
    /\ ret' = [op |-> "reset"]
    /\ UNCHANGED players
    /\ achievementFrame

NextAchievement ==
    \/ \E p \in PlayerIds, points \in AchievementPoints,
          reason \in ScoreReasons : achievementAward(p, points, reason)
    \/ \E p \in PlayerIds, points \in AchievementPoints :
          achievementDeduct(p, points)
    \/ resetScores

SpecAchievement == InitAchievement /\ [][NextAchievement]_vars

\* C31: between two ScoreSystem.reset calls every achievement is unlocked,
\* and its achievement_unlocked event emitted, at most once per player,
\* whatever awardPoints calls are made, also when a threshold is crossed
\* again after the score dropped back; a player holds an achievement exactly
\* when its event has been emitted.
C31_UnlockedAtMostOnce ==
    /\ \A i, j \in 1 .. Len(unlockedEvents) :
          unlockedEvents[i] = unlockedEvents[j] => i = j
    /\ \A p \in PlayerIds, id \in AchievementIds :
          hasAchievement(achievements, p, id) <=>
             \E i \in 1 .. Len(unlockedEvents) :
                unlockedEvents[i] = [player |-> p, id |-> id]

\* C31 happens: a player has scored from 0 up to the threshold of 10 twice
\* since the reset, dropping back to 0 in between, and holds first_score,
\* score_10 and big_score.
C31_Witness ==
    /\ Len(scoreHistory) = 3
    /\ \E p \in PlayerIds :
          /\ \A i \in 1 .. 3 : scoreHistory[i].player = p
          /\ scoreHistory[1].kind = "award"
          /\ scoreHistory[1].oldScore = 0
          /\ scoreHistory[1].newScore >= 10
          /\ scoreHistory[2].kind = "deduct"
          /\ scoreHistory[2].newScore = 0
          /\ scoreHistory[3].kind = "award"
          /\ scoreHistory[3].newScore >= 10
          /\ {"first_score", "score_10", "big_score"} \subseteq achievements[p]
          /\ Len(unlockedEvents) = 4

-----------------------------------------------------------------------------
(* The decision of the AI: Game.makeAIDecision, which the game calls, and  *)
(* AIPlayer.makePlayDecision.  The scores of AIPlayer are in hundredths.   *)

\* GridSystem.getEmptyPositions: the empty slots in ascending order.
RECURSIVE getEmptyPositionsFrom(_)
getEmptyPositionsFrom(i) ==
    IF i >= TOTAL_POSITIONS
    THEN << >>
    ELSE (IF grid[i] = NoCard THEN << i >> ELSE << >>)
            \o getEmptyPositionsFrom(i + 1)

getEmptyPositions == getEmptyPositionsFrom(0)

\* Player.hand as the array it is: the cards in the order of the deal, which
\* is the order of their numbers.
RECURSIVE handArray(_)
handArray(hand) ==
    IF hand = {}
    THEN << >>
    ELSE LET first == CHOOSE c \in hand : \A d \in hand : c <= d
         IN  << first >> \o handArray(hand \ {first})

\* Card.canDefeat, on the types.
canDefeat(type, otherType) == CARD_INFO[type].defeats = otherType

\* BattleSystem.analyzePotentialBattles: the outcomes, for the new card, of
\* the battles with its left and right neighbours.
analyzePotentialBattles(position, newCard) ==
    LET neighbors == getHorizontalNeighbors(position)
        leftCard == IF neighbors.left # NoPosition
                    THEN getCardAt(neighbors.left) ELSE NoCard
        rightCard == IF neighbors.right # NoPosition
                     THEN getCardAt(neighbors.right) ELSE NoCard
        left == IF leftCard # NoCard
                THEN LET outcome == determineBattleOutcome(cards[leftCard],
                                                           cards[newCard])
                     IN  << IF outcome = "card2_wins" THEN "win"
                            ELSE IF outcome = "card1_wins" THEN "lose"
                            ELSE "tie" >>
                ELSE << >>
        right == IF rightCard # NoCard
                 THEN LET outcome == determineBattleOutcome(cards[newCard],
                                                            cards[rightCard])
                      IN  << IF outcome = "card1_wins" THEN "win"
                             ELSE IF outcome = "card2_wins" THEN "lose"
                             ELSE "tie" >>
                 ELSE << >>
    IN  left \o right

\* The cards of player at the positions adjacent to position.
friendlyAdjacent(position, player) ==
    LET adjacent == getAdjacentPositions(position)
    IN  Cardinality({i \in DOMAIN adjacent :
                        /\ getCardAt(adjacent[i]) # NoCard
                        /\ cards[getCardAt(adjacent[i])].owner = player})

\* BattleSystem.calculateExpectedScore
calculateExpectedScore(position, card, player) ==
    LET battles == analyzePotentialBattles(position, card)
        wins == Cardinality({i \in DOMAIN battles : battles[i] = "win"})
        neighbors == getHorizontalNeighbors(position)
        advancement == IF /\ neighbors.right # NoPosition
                          /\ isPositionAvailable(neighbors.right)
                       THEN ADVANCEMENT
                       ELSE 0
    IN  wins * BATTLE_WIN + advancement
           + friendlyAdjacent(position, player) * CONTROL

\* The plays of a hand on the empty positions, in the order of the two loops.
RECURSIVE playsOfCard(_, _)
playsOfCard(card, positions) ==
    IF positions = << >>
    THEN << >>
    ELSE << [card |-> card, position |-> Head(positions)] >>
            \o playsOfCard(card, Tail(positions))

RECURSIVE playsOfHand(_, _)
playsOfHand(hand, positions) ==
    IF hand = << >>
    THEN << >>
    ELSE playsOfCard(Head(hand), positions)
            \o playsOfHand(Tail(hand), positions)

\* No option found (bestOption is null).
NoOption == [card |-> NoCard, position |-> NoPosition]

\* The loops of makeAIDecision: the first play of the highest expected score.
RECURSIVE bestOptionFrom(_, _, _)
bestOptionFrom(plays, bestOption, bestScore) ==
    IF plays = << >>
    THEN bestOption
    ELSE LET play == Head(plays)
             score == calculateExpectedScore(play.position, play.card, "ai")
         IN  IF bestOption = NoOption \/ score > bestScore
             THEN bestOptionFrom(Tail(plays), play, score)
             ELSE bestOptionFrom(Tail(plays), bestOption, bestScore)

\* Game.makeAIDecision, the card and the position: null when the hand of the
\* AI or the grid has nothing left.
makeAIDecision ==
    LET aiHand == handArray(players["ai"].hand)
        emptyPositions == getEmptyPositions
    IN  IF Len(aiHand) = 0 \/ Len(emptyPositions) = 0
        THEN NoOption
        ELSE bestOptionFrom(playsOfHand(aiHand, emptyPositions), NoOption, 0)

\* Player.prototype.shouldBluff: false for a player that is not the AI; for
\* the AI, Math.random() against a rate between 0.3 and 0.5.
shouldBluff(p) == IF p # "ai" THEN {FALSE} ELSE BOOLEAN

\* getRandomCardType returning any type.
getRandomCardTypeAny(excludeType) == CARD_TYPES

\* Game.getRandomCardType(excludeType): the types it can return, every type
\* but the excluded one (Math.floor(Math.random() * length) is any index).
getRandomCardType(excludeType) == {t \in CARD_TYPES : t # excludeType}

\* GridSystem.getDistance
getDistance(pos1, pos2) ==
    LET coords1 == positionToCoords(pos1)
        coords2 == positionToCoords(pos2)
        abs(n) == IF n < 0 THEN -n ELSE n
    IN  abs(coords1.row - coords2.row) + abs(coords1.col - coords2.col)

\* GridSystem.isEdgePosition(position).isEdge
isEdgePosition(position) ==
    LET coords == positionToCoords(position)
    IN  \/ coords.row = 0
        \/ coords.row = GRID_HEIGHT - 1
        \/ coords.col = 0
        \/ coords.col = GRID_WIDTH - 1

\* AIPlayer.evaluatePosition
evaluatePosition(position) ==
    LET coords == positionToCoords(position)
        centerCol == GRID_WIDTH \div 2
        centerRow == GRID_HEIGHT \div 2
        abs(n) == IF n < 0 THEN -n ELSE n
        distanceFromCenter ==
            abs(coords.col - centerCol) + abs(coords.row - centerRow)
    IN  (GRID_WIDTH + GRID_HEIGHT - distanceFromCenter) * 50
           + (IF isEdgePosition(position) THEN 100 ELSE 0)
           + friendlyAdjacent(position, "ai") * 200

\* The horizontal neighbours of position that hold a card of another owner
\* than the AI, as a set of positions.
opposingNeighbors(position) ==
    LET neighbors == getHorizontalNeighbors(position)
    IN  {n \in {neighbors.left, neighbors.right} :
            /\ n # NoPosition
            /\ getCardAt(n) # NoCard
            /\ cards[getCardAt(n)].owner # "ai"}

\* AIPlayer.evaluateAggressiveStrategy
evaluateAggressiveStrategy(card, position) ==
    500 * Cardinality({n \in opposingNeighbors(position) :
                          canDefeat(cards[card].type, cards[getCardAt(n)].type)})

\* The opposing neighbours whose card defeats the card.
threats(card, position) ==
    Cardinality({n \in opposingNeighbors(position) :
                    canDefeat(cards[getCardAt(n)].type, cards[card].type)})

\* AIPlayer.evaluateDefensiveStrategy
evaluateDefensiveStrategy(card, position) ==
    friendlyAdjacent(position, "ai") * 200 - 300 * threats(card, position)

\* AIPlayer.evaluateBalancedStrategy: six tenths of the two.
evaluateBalancedStrategy(card, position) ==
    ((evaluateAggressiveStrategy(card, position)
         + evaluateDefensiveStrategy(card, position)) * 6) \div 10

\* AIPlayer.evaluateStrategy
evaluateStrategy(ai, card, position) ==
    CASE ai.strategy = "aggressive" ->
             evaluateAggressiveStrategy(card, position)
      [] ai.strategy = "defensive" ->
             evaluateDefensiveStrategy(card, position)
      [] ai.strategy = "balanced" ->
             evaluateBalancedStrategy(card, position)
      [] OTHER -> 0

\* AIPlayer.evaluateDisruption: a point for every card of another owner
\* within a distance of 2.
evaluateDisruption(card, position) ==
    100 * Cardinality({p \in Positions :
                          /\ grid[p] # NoCard
                          /\ cards[grid[p]].owner # "ai"
                          /\ getDistance(position, p) <= 2})

\* AIPlayer.evaluateRisk: 2 for every threat, times the caution.
evaluateRisk(ai, card, position) ==
    2 * threats(card, position) * ai.traits.caution

\* AIPlayer.analyzePlay: the play with its score.
analyzePlay(ai, card, position) ==
    [card |-> card,
     position |-> position,
     score |-> calculateExpectedScore(position, card, "ai") * 100
                  + evaluatePosition(position)
                  + evaluateStrategy(ai, card, position)
                  + evaluateDisruption(card, position)
                  - evaluateRisk(ai, card, position)]

\* Array.sort by descending score, which is stable: a play goes behind the
\* plays of the same score analysed before it.
RECURSIVE insertByScore(_, _)
insertByScore(sorted, play) ==
    IF sorted = << >>
    THEN << play >>
    ELSE IF Head(sorted).score >= play.score
         THEN << Head(sorted) >> \o insertByScore(Tail(sorted), play)
         ELSE << play >> \o sorted

RECURSIVE sortByScore(_, _)
sortByScore(plays, sorted) ==
    IF plays = << >>
    THEN sorted
    ELSE sortByScore(Tail(plays), insertByScore(sorted, Head(plays)))

\* AIPlayer.analyzePossiblePlays
analyzePossiblePlays(ai, hand, positions) ==
    LET plays == playsOfHand(hand, positions)
    IN  sortByScore([i \in DOMAIN plays |->
                        analyzePlay(ai, plays[i].card, plays[i].position)],
                    << >>)

\* AIPlayer.selectBestPlay: the plays it can return.  Among the three best
\* the choice is random with weights max(0, score + r), r within the
\* adaptability on either side: the best play can always come out, another
\* one when its weight can be positive.
selectBestPlay(ai, plays) ==
    IF plays = << >>
    THEN {}
    ELSE {plays[i] : i \in {j \in 1 .. Len(plays) :
                               /\ j <= 3
                               /\ \/ j = 1
                                  \/ plays[j].score + ai.traits.adaptability
                                        > 0}}

\* AIPlayer.chooseBestBluff(actualCard): the types it can return.
chooseBestBluff(actualType) == {t \in CARD_TYPES : t # actualType}

\* The decision history keeps the last DECISION_HISTORY_LIMIT decisions.
DECISION_HISTORY_LIMIT == 20

\* AIPlayer.rememberDecision: the decision joins the history with the hand
\* size of the moment; the oldest one is dropped beyond the limit.
rememberDecision(ai, decision, handSize) ==
    LET pushed == Append(ai.decisionHistory,
                         [decision |-> decision, handSize |-> handSize,
                          outcome |-> Null])
    IN  [ai EXCEPT !.decisionHistory =
            IF Len(pushed) > DECISION_HISTORY_LIMIT
            THEN Tail(pushed)
            ELSE pushed]

\* A memory that drops its newest entry, not its oldest, beyond maxMemorySize.
addMemoryNewestOut(ai, player, wasBluff) ==
    LET pushed == Append(ai.memory, [player |-> player, wasBluff |-> wasBluff])
    IN  [ai EXCEPT !.memory =
            IF Len(pushed) > ai.maxMemorySize
            THEN SubSeq(pushed, 1, Len(pushed) - 1)
            ELSE pushed]

\* AIPlayer.addMemory(player, playData): the entry joins the memory; the
\* oldest one is dropped beyond maxMemorySize.
addMemory(ai, player, wasBluff) ==
    LET pushed == Append(ai.memory, [player |-> player, wasBluff |-> wasBluff])
    IN  [ai EXCEPT !.memory =
            IF Len(pushed) > ai.maxMemorySize THEN Tail(pushed) ELSE pushed]

-----------------------------------------------------------------------------
(* SpecDecision: the placement phase of a round in which the AI plays what *)
(* Game.makeAIDecision decides; AIPlayer.makePlayDecision, which the game  *)
(* does not call, is asked for its decision on the same hands and grids.   *)
(* The human plays truthfully on a few slots; the cards of the AI are of   *)
(* any type.                                                               *)

\* Decisions of AIPlayer.makePlayDecision followed.
MaxDecisions == 1

\* The slots the human plays on.
DecisionPositions == {0, 1, 7}

\* The strategies adaptStrategy can have left.
Strategies == {"aggressive", "defensive", "balanced"}

InitDecision ==
    /\ \E types \in [{c \in GameCardIds : ownerOf(c) = "ai"} -> CARD_TYPES] :
          cards = [c \in GameCardIds |->
                      [Card(IF ownerOf(c) = "ai" THEN types[c]
                            ELSE dealtType(c), ownerOf(c))
                          EXCEPT !.state = CARD_STATES.IN_HAND]]
    /\ players = [p \in PlayerIds |->
                     [Player EXCEPT
                         !.hand = {c \in GameCardIds : ownerOf(c) = p}]]
    /\ GridConstructed
    /\ BattleConstructed
    /\ ChallengeConstructed
    /\ \E strategy \in Strategies :
          aiPlayer = [AIPlayer("MEDIUM") EXCEPT !.strategy = strategy]
    /\ earlierMatch = NoEarlierMatch
    /\ ScoreConstructed
    /\ StateConstructed
    /\ game = [gameState |-> GAME_STATES.PLAYING,
               turnPhase |-> TURN_PHASES.PLACEMENT,
               currentPlayer |-> "human",
               roundNumber |-> 1,
               isGameActive |-> TRUE,
               isPaused |-> FALSE,
               waitingForChallenge |-> FALSE,
               totalMoves |-> 0,
               pc |-> "idle"]
    /\ selection = NoSelection
    /\ errorHandling = NoError
    /\ ret = NoReturn

\* The human plays a card of the hand truthfully: executePlay, then endTurn.
humanPlays(card, position) ==
    /\ Accepting
    /\ game.currentPlayer = "human"
    /\ playableState(game)
    /\ playExecuted("human", card, position, cards[card].type)
    /\ game' = endTurn([game EXCEPT !.totalMoves = @ + 1], players')
    /\ ret' = NoReturn
    /\ UNCHANGED << battleVars, scoreVars, aiPlayer, earlierMatch,
                    stateManager, reentrantPasses, errorHandling, selection >>

\* handleAITurn after its delay: makeAIDecision, with the claim made when the
\* best option was found, and executePlay of the decision, which then waits
\* for the challenge window; without a decision, or with one that is not a
\* valid play, the turn is ended.
aiDecides ==
    /\ game.pc = "aiDelay"
    /\ \E option \in {makeAIDecision} :
          IF option = NoOption
          THEN /\ game' = endTurn(game, players)
               /\ ret' = [op |-> "makeAIDecision", card |-> NoCard]
               /\ UNCHANGED << cards, players, gridVars, challengeVars >>
          ELSE \E bluff \in shouldBluff("ai") :
               \E claimedType \in
                     IF bluff
                     THEN getRandomCardType(cards[option.card].type)
                     ELSE {cards[option.card].type} :
                  /\ IF /\ option.card \in players[game.currentPlayer].hand
                        /\ isPositionAvailable(option.position)
                        /\ claimedType \in CARD_TYPES
                        /\ playableState(game)
                     THEN /\ playExecuted("ai", option.card, option.position,
                                          claimedType)
                          /\ game' = [game EXCEPT
                                         !.totalMoves = @ + 1,
                                         !.waitingForChallenge = TRUE,
                                         !.pc = "aiWaiting"]
                     ELSE /\ game' = endTurn(game, players)
                          /\ UNCHANGED << cards, players, gridVars,
                                          challengeVars >>
                  /\ ret' = [op |-> "makeAIDecision",
                             card |-> option.card,
                             position |-> option.position,
                             claimedType |-> claimedType,
                             isBluff |-> bluff]
    /\ UNCHANGED << battleVars, scoreVars, aiPlayer, earlierMatch,
                    stateManager, reentrantPasses, errorHandling, selection >>

\* AIPlayer.shouldBluff(play, gameState): Math.random() against a chance that
\* lies strictly between 0 and 1 more often than not; either answer.
shouldBluffPlay == BOOLEAN

\* AIPlayer.makePlayDecision: null without a card or an empty slot; else the
\* play selected among the analysed ones, the claim, and the decision
\* remembered.
makePlayDecision ==
    /\ Suspended
    /\ Len(aiPlayer.decisionHistory) < MaxDecisions
    /\ LET hand == handArray(players["ai"].hand)
           emptyPositions == getEmptyPositions
       IN  IF Len(hand) = 0 \/ Len(emptyPositions) = 0
           THEN /\ ret' = [op |-> "makePlayDecision", card |-> NoCard]
                /\ UNCHANGED aiPlayer
           ELSE \E bestPlay \in selectBestPlay(
                                   aiPlayer,
                                   analyzePossiblePlays(aiPlayer, hand,
                                                        emptyPositions)) :
                \E bluff \in shouldBluffPlay :
                \E claimedType \in
                      IF bluff
                      THEN chooseBestBluff(cards[bestPlay.card].type)
                      ELSE {cards[bestPlay.card].type} :
                \E decision \in {[op |-> "makePlayDecision",
                                  card |-> bestPlay.card,
                                  position |-> bestPlay.position,
                                  claimedType |-> claimedType,
                                  isBluff |-> bluff]} :
                   /\ aiPlayer' = rememberDecision(aiPlayer, decision,
                                                   Len(hand))
                   /\ ret' = decision
    /\ UNCHANGED << cards, players, gridVars, battleVars, challengeVars,
                    scoreVars, earlierMatch, game, stateManager,
                    reentrantPasses, errorHandling, selection >>

NextDecision ==
    \/ \E card \in GameCardIds, position \in DecisionPositions :
          humanPlays(card, position)
    \/ aiDecides
    \/ makePlayDecision
    \/ \E timer \in pendingTimers : challengeWindowExpires(timer)

SpecDecision == InitDecision /\ [][NextDecision]_vars

\* The decision returned by the step is one of the two methods' and not null.
Decided ==
    /\ ret'.op \in {"makeAIDecision", "makePlayDecision"}
    /\ ret'.card # NoCard
    /\ ret' # ret \/ aiPlayer' # aiPlayer \/ cards' # cards

\* C32: when the AI decides to bluff, the claimed type is one of the two
\* types that differ from the card's type, and when it does not, the claimed
\* type is the card's type, so that the card played isBluffing() exactly when
\* the decision was to bluff; the decision is a card of the hand of the AI
\* on a slot that is empty.
C32_BluffClaimsAnotherType ==
    [][Decided =>
          /\ ret'.card \in players["ai"].hand
          /\ ret'.position \in Positions
          /\ grid[ret'.position] = NoCard
          /\ ret'.isBluff =>
                ret'.claimedType \in CARD_TYPES \ {cards[ret'.card].type}
          /\ ~ret'.isBluff => ret'.claimedType = cards[ret'.card].type
          /\ isBluffing(setClaim(cards[ret'.card], ret'.claimedType))
                = ret'.isBluff
          /\ ret'.op = "makeAIDecision" =>
                /\ grid'[ret'.position] = ret'.card
                /\ isBluffing(cards'[ret'.card]) = ret'.isBluff
      ]_vars

\* C32 happens: the AI has played the bluff makeAIDecision decided on, next
\* to a card of the human, after AIPlayer.makePlayDecision had decided on a
\* bluff as well.
C32_Witness ==
    /\ ret.op = "makeAIDecision"
    /\ ret.card # NoCard
    /\ ret.isBluff
    /\ grid[ret.position] = ret.card
    /\ isBluffing(cards[ret.card])
    /\ \E p \in Positions : grid[p] # NoCard /\ cards[grid[p]].owner = "human"
    /\ Len(aiPlayer.decisionHistory) = 1
    /\ aiPlayer.decisionHistory[1].decision.isBluff

-----------------------------------------------------------------------------
(* SpecMemory: an AIPlayer of any difficulty whose memory and decision     *)
(* history are empty or one entry short of their capacity, and the calls   *)
(* of addMemory, rememberDecision and reset that follow.                   *)

\* Calls of addMemory and rememberDecision followed.
MaxMemoryCalls == 5

\* The entry of the memory and the decision of the history made before the
\* calls that are followed.
EarlierEntry == [player |-> "human", wasBluff |-> FALSE]

EarlierDecision ==
    [op |-> "makePlayDecision", card |-> 1, position |-> 0,
     claimedType |-> dealtType(1), isBluff |-> FALSE]

\* The decisions remembered: a play of a card, truthful or not.
MemoryDecisions ==
    {[op |-> "makePlayDecision", card |-> 2, position |-> 1,
      claimedType |-> claimedType, isBluff |-> claimedType # dealtType(2)] :
        claimedType \in CARD_TYPES}

\* The calls made so far.
callsOf(r) == IF r = NoReturn \/ r.op = "reset" THEN 0 ELSE r.calls

\* The last n elements of a sequence, all of them when there are fewer.
lastOf(s, n) == SubSeq(s, Max(1, Len(s) - n + 1), Len(s))

InitMemory ==
    /\ cards = [c \in CardIds |-> Card(dealtType(c), ownerOf(c))]
    /\ PlayersConstructed
    /\ GridConstructed
    /\ BattleConstructed
    /\ ChallengeConstructed
    /\ \E difficulty \in DOMAIN AI_DIFFICULTY :
       \E remembered \in {0, AIPlayer(difficulty).maxMemorySize - 1} :
       \E decided \in {0, DECISION_HISTORY_LIMIT - 1} :
          aiPlayer = [AIPlayer(difficulty) EXCEPT
                         !.memory = [i \in 1 .. remembered |-> EarlierEntry],
                         !.decisionHistory =
                            [i \in 1 .. decided |->
                                [decision |-> EarlierDecision,
                                 handSize |-> 0, outcome |-> Null]]]
    /\ earlierMatch = NoEarlierMatch
    /\ ScoreConstructed
    /\ GameConstructed
    /\ StateConstructed
    /\ ret = NoReturn

memoryFrame ==
    UNCHANGED << cards, players, gridVars, battleVars, challengeVars,
                 scoreVars, earlierMatch, game, stateManager,
                 reentrantPasses, selection, errorHandling >>

memoryAdded(player, wasBluff) ==
    /\ callsOf(ret) < MaxMemoryCalls
    /\ aiPlayer' = addMemory(aiPlayer, player, wasBluff)
    /\ ret' = [op |-> "addMemory", calls |-> callsOf(ret) + 1,
               entry |-> [player |-> player, wasBluff |-> wasBluff]]
    /\ memoryFrame

decisionRemembered(decision) ==
    /\ callsOf(ret) < MaxMemoryCalls
    /\ aiPlayer' = rememberDecision(aiPlayer, decision,
                                    Cardinality(players["ai"].hand))
    /\ ret' = [op |-> "rememberDecision", calls |-> callsOf(ret) + 1,
               entry |-> [decision |-> decision,
                          handSize |-> Cardinality(players["ai"].hand),
                          outcome |-> Null]]
    /\ memoryFrame

\* AIPlayer.reset(): memory and history are emptied, the strategy and the
\* traits are those of the constructor.
aiPlayerReset ==
    /\ aiPlayer.memory # << >> \/ aiPlayer.decisionHistory # << >>
    /\ aiPlayer' = [aiPlayer EXCEPT
                       !.memory = << >>,
                       !.decisionHistory = << >>,
                       !.strategy = "balanced",
                       !.traits = AIPlayer(aiPlayer.difficulty).traits]
    /\ ret' = [op |-> "reset"]
    /\ memoryFrame

NextMemory ==
    \/ \E player \in PlayerIds, wasBluff \in BOOLEAN :
          memoryAdded(player, wasBluff)
    \/ \E decision \in MemoryDecisions : decisionRemembered(decision)
    \/ aiPlayerReset

SpecMemory == InitMemory /\ [][NextMemory]_vars

\* C33: the memory never holds more than memoryDepth entries and the
\* decision history never more than 20; every addMemory leaves the most
\* recent memoryDepth entries of the memory with the new entry at its end,
\* in the order of arrival, and every rememberDecision does the same to the
\* decision history with 20, so that the oldest entry goes first.
C33_OldestEvictedFirst ==
    [][/\ aiPlayer'.maxMemorySize
             = AI_DIFFICULTY[aiPlayer.difficulty].memoryDepth
       /\ Len(aiPlayer'.memory) <= aiPlayer'.maxMemorySize
       /\ Len(aiPlayer'.decisionHistory) <= 20
       /\ ret'.op = "addMemory" =>
             /\ aiPlayer'.memory
                   = lastOf(Append(aiPlayer.memory, ret'.entry),
                            aiPlayer.maxMemorySize)
             /\ aiPlayer'.decisionHistory = aiPlayer.decisionHistory
       /\ ret'.op = "rememberDecision" =>
             /\ aiPlayer'.decisionHistory
                   = lastOf(Append(aiPlayer.decisionHistory, ret'.entry), 20)
             /\ aiPlayer'.memory = aiPlayer.memory
      ]_vars

\* C33 happens: a memory and a history that were one entry short of their
\* capacity have taken more entries than they can hold, and hold the last
\* ones.
C33_Witness ==
    /\ ret.op = "addMemory"
    /\ ret.calls = MaxMemoryCalls
    /\ Len(aiPlayer.memory) = aiPlayer.maxMemorySize
    /\ aiPlayer.memory[1] = EarlierEntry
    /\ aiPlayer.memory[aiPlayer.maxMemorySize] = [player |-> "ai", wasBluff |-> TRUE]
    /\ aiPlayer.memory[aiPlayer.maxMemorySize - 1] = [player |-> "human", wasBluff |-> TRUE]
    /\ aiPlayer.memory[aiPlayer.maxMemorySize - 2] = [player |-> "ai", wasBluff |-> FALSE]
    /\ Len(aiPlayer.decisionHistory) = DECISION_HISTORY_LIMIT
    /\ aiPlayer.decisionHistory[DECISION_HISTORY_LIMIT].decision.isBluff
    /\ aiPlayer.decisionHistory[DECISION_HISTORY_LIMIT - 1].decision.isBluff
    /\ aiPlayer.decisionHistory[1].decision = EarlierDecision

-----------------------------------------------------------------------------
(* The game: pauses, and the cards of a round *)

\* C36: while the match is paused, nothing of the game changes: no card is
\* placed, no battle resolved, no score changed, no round dealt, and the
\* phase, the current player and the round number stay as they are until
\* resumeGame, wherever in the turn pauseGame was called (the delay of the
\* AI, the wait for the challenge window, the delay between two battles).
C36_PausedFreezesMatch ==
    [][(game.isPaused /\ game'.isPaused) =>
          /\ cards' = cards
          /\ players' = players
          /\ grid' = grid
          /\ battleResults' = battleResults
          /\ game'.turnPhase = game.turnPhase
          /\ game'.currentPlayer = game.currentPlayer
          /\ game'.roundNumber = game.roundNumber
      ]_vars

\* The round has been scored and counted while the match was paused: the
\* pause was made during the delay between two battles, the only place the
\* flow can be paused at between the last play and the next round.
C36_Witness ==
    /\ game.isPaused
    /\ game.gameState = GAME_STATES.PAUSED
    /\ game.turnPhase = TURN_PHASES.SCORING
    /\ game.roundNumber = 2
    /\ game.pc = "startNewRound"
    /\ Len(battleResults) > 0

\* C37: whenever the match is playing, in the placement phase, and the
\* current player is the AI with a card in its hand, a turn of the AI is
\* pending (its delay runs) or in progress (its play waits for the challenge
\* window): the match does not wait for a move of the AI that was never
\* scheduled, pauses and resumptions included.
C37_AITurnScheduled ==
    (/\ game.isGameActive
     /\ game.gameState = GAME_STATES.PLAYING
     /\ game.turnPhase = TURN_PHASES.PLACEMENT
     /\ game.currentPlayer = "ai"
     /\ players["ai"].hand # {})
        => game.pc \in {"aiDelay", "aiWaiting"}

\* The match has been resumed in a round that was dealt while it was paused:
\* it is the turn of the AI, which holds its whole hand, and nothing is
\* scheduled.
C37_Witness ==
    /\ game.isGameActive
    /\ ~game.isPaused
    /\ game.gameState = GAME_STATES.PLAYING
    /\ game.turnPhase = TURN_PHASES.PLACEMENT
    /\ game.roundNumber = 2
    /\ game.currentPlayer = "ai"
    /\ Cardinality(players["ai"].hand) = MaxHand
    /\ game.pc = "idle"
    /\ pendingTimers = {}

\* The cards of the round have been dealt.
RoundDealt == \E c \in DOMAIN cards : cards[c].owner # Null

\* The slots a card lies on.
slotsOf(c) == {p \in Positions : grid[p] = c}

\* C39: once a round is dealt, every dealt card is either in the hand of its
\* owner, and of nobody else, or on exactly one slot of the grid, never both;
\* the hand of each player and the cards it has placed make CARDS_PER_HAND
\* together; the occupied slots are as many as the cards placed by both
\* players, and no more than TOTAL_POSITIONS.
C39_CardsConserved ==
    RoundDealt =>
       /\ \A c \in DOMAIN cards :
             cards[c].owner # Null =>
                /\ c \notin players[opponentOf(cards[c].owner)].hand
                /\ \/ /\ c \in players[cards[c].owner].hand
                      /\ slotsOf(c) = {}
                   \/ /\ c \notin players[cards[c].owner].hand
                      /\ Cardinality(slotsOf(c)) = 1
       /\ \A p \in PlayerIds :
             Cardinality(players[p].hand) + Len(players[p].placedCards)
                = MaxHand
       /\ Cardinality({p \in Positions : grid[p] # NoCard})
             = Len(players["human"].placedCards)
                  + Len(players["ai"].placedCards)
       /\ Cardinality({p \in Positions : grid[p] # NoCard}) <= TOTAL_POSITIONS

\* C39 happens: in the middle of a round each player has a card on the grid
\* and a card in its hand, after a turn of the AI that was rejected.
C39_Witness ==
    /\ RoundDealt
    /\ game.turnPhase = TURN_PHASES.PLACEMENT
    /\ \A p \in PlayerIds :
          /\ Cardinality(players[p].hand) = 1
          /\ Len(players[p].placedCards) = 1
    /\ game.totalMoves = 2
    /\ game.pc = "idle"
    /\ game.currentPlayer = "human"
    /\ game.isPaused

-----------------------------------------------------------------------------
(* SpecMatch: a Game from its construction: initializeGame, the round that *)
(* follows, pauses, errors, destroy, and initializeGame again while the    *)
(* first match is under way.  What the first match had pending when the    *)
(* second was started (the delay of the AI, the wait for the challenge     *)
(* window, the delay between two battles) runs on later, while the second  *)
(* match waits for the human.                                              *)

\* Calls of initializeGame followed.
MaxMatches == 2

InitMatch ==
    /\ cards = [c \in GameCardIds |-> Card(dealtType(c), Null)]
    /\ PlayersConstructed
    /\ GridConstructed
    /\ BattleConstructed
    /\ ChallengeConstructed
    /\ AIConstructed
    /\ earlierMatch = NoEarlierMatch
    /\ ScoreConstructed
    /\ GameConstructed
    /\ StateConstructed
    /\ ret = NoReturn

\* What the flow of the game has pending: nothing, or the continuation of
\* one of its waits.
pendingContinuation ==
    IF game.pc \in {"aiDelay", "aiWaiting"} THEN game.pc
    ELSE IF game.pc = "battle" /\ battlePc = "delay" THEN "battleDelay"
    ELSE "none"

\* Game.initializeGame, its first statement: the state is loading.  What the
\* match under way has pending stays pending.
initializeGame ==
    /\ Suspended
    /\ earlierMatch.started < MaxMatches
    /\ game' = [game EXCEPT !.gameState = GAME_STATES.LOADING,
                            !.pc = "initializeGame"]
    /\ earlierMatch' =
          [pc |-> IF pendingContinuation # "none"
                  THEN pendingContinuation
                  ELSE earlierMatch.pc,
           index |-> IF pendingContinuation = "battleDelay"
                     THEN battleIndex
                     ELSE earlierMatch.index,
           started |-> earlierMatch.started + 1]
    /\ ret' = [op |-> "initializeGame"]
    /\ UNCHANGED << cards, players, gridVars, battleVars, challengeVars,
                    scoreVars, aiPlayer, stateManager, reentrantPasses,
                    errorHandling, selection >>

\* Game.initializeGame, the rest: new players, the human first, the systems
\* cleared, round 1, no moves, the state playing, the game active; then
\* startNewRound.  isPaused is not written.
gameInitialized ==
    /\ game.pc = "initializeGame"
    /\ players' = [p \in PlayerIds |-> Player]
    /\ clearGrid
    /\ battleQueue' = << >>
    /\ battleResults' = << >>
    /\ isProcessing' = FALSE
    /\ battlePc' = "idle"
    /\ battleIndex' = 0
    /\ clear
    /\ game' = [game EXCEPT !.currentPlayer = "human",
                            !.roundNumber = 1,
                            !.totalMoves = 0,
                            !.gameState = GAME_STATES.PLAYING,
                            !.isGameActive = TRUE,
                            !.pc = "startNewRound"]
    /\ ret' = NoReturn
    /\ UNCHANGED << cards, scoreVars, aiPlayer, earlierMatch, stateManager,
                    reentrantPasses, errorHandling, selection >>

\* Game.destroy: the game is not active, the state is the menu, the systems
\* are cleared.  What the match has pending stays pending.
destroy ==
    /\ Suspended
    /\ game.gameState # GAME_STATES.MENU
    /\ clearGrid
    /\ battleQueue' = << >>
    /\ battleResults' = << >>
    /\ isProcessing' = FALSE
    /\ clear
    /\ game' = [game EXCEPT !.isGameActive = FALSE,
                            !.gameState = GAME_STATES.MENU]
    /\ ret' = [op |-> "destroy"]
    /\ UNCHANGED << cards, players, battlePc, battleIndex, scoreVars,
                    aiPlayer, earlierMatch, stateManager, reentrantPasses,
                    errorHandling, selection >>

\* Game.handleGameError of a game that is active and not paused, as far as
\* the game is concerned: pauseGame.
gameErrorHandled ==
    /\ Suspended
    /\ game.isGameActive /\ ~game.isPaused
    /\ game' = [game EXCEPT !.isPaused = TRUE,
                            !.gameState = GAME_STATES.PAUSED]
    /\ ret' = NoReturn
    /\ UNCHANGED << cards, players, gridVars, battleVars, challengeVars,
                    scoreVars, aiPlayer, earlierMatch, stateManager,
                    reentrantPasses, errorHandling, selection >>

\* The match waits for the human, and an earlier match has left something.
StaleDue(pc) ==
    /\ earlierMatch.pc = pc
    /\ game.pc = "idle"
    /\ battlePc = "idle"

\* The continuation has run.
staleDone == [earlierMatch EXCEPT !.pc = "none", !.index = 0]

\* handleAITurn of the earlier match after its delay: makeAIDecision over
\* the hand of the AI and the grid of this match, executePlay, which takes
\* the play when the card is in the hand of the current player, and endTurn
\* when it throws or when there is no decision.
staleAITurn ==
    /\ StaleDue("aiDelay")
    /\ \E option \in {makeAIDecision} :
          IF /\ option # NoOption
             /\ option.card \in players[game.currentPlayer].hand
             /\ isPositionAvailable(option.position)
             /\ playableState(game)
          THEN \E bluff \in shouldBluff("ai") :
               \E claimedType \in
                     IF bluff
                     THEN getRandomCardType(cards[option.card].type)
                     ELSE {cards[option.card].type} :
                  /\ playExecuted(game.currentPlayer, option.card,
                                  option.position, claimedType)
                  /\ game' = [game EXCEPT
                                 !.totalMoves = @ + 1,
                                 !.waitingForChallenge = TRUE,
                                 !.pc = "aiWaiting"]
          ELSE /\ game' = endTurn(game, players)
               /\ UNCHANGED << cards, players, gridVars, challengeVars >>
    /\ earlierMatch' = staleDone
    /\ ret' = [op |-> "earlierMatch", pc |-> "aiDelay"]
    /\ UNCHANGED << battleVars, scoreVars, aiPlayer, stateManager,
                    reentrantPasses, errorHandling, selection >>

\* executePlay of the earlier match after the timeout of its
\* waitForChallengeOrTimeout, which nothing has cleared: the flag is
\* cleared and endTurn called.
staleWaitOver ==
    /\ StaleDue("aiWaiting")
    /\ game' = endTurn([game EXCEPT !.waitingForChallenge = FALSE], players)
    /\ earlierMatch' = staleDone
    /\ ret' = [op |-> "earlierMatch", pc |-> "aiWaiting"]
    /\ UNCHANGED << cards, players, gridVars, battleVars, challengeVars,
                    scoreVars, aiPlayer, stateManager, reentrantPasses,
                    errorHandling, selection >>

\* resolveAllBattles of the earlier match after its delay: its loop reads
\* this.battleQueue, which clear() has replaced, and ends; processAdvancements
\* runs over the grid of this match; startBattlePhase goes on to
\* startScoringPhase, which ends the match or the round.
staleBattleResumes ==
    /\ StaleDue("battleDelay")
    /\ earlierMatch.index + 1 >= Len(battleQueue)
    /\ \E done \in {processAdvancements([players |-> players,
                                          cards |-> cards], battleQueue)} :
          /\ players' = done.players
          /\ cards' = done.cards
          /\ \E winner \in {checkVictoryConditions(done.players)} :
                game' = IF winner # Null
                        THEN [game EXCEPT
                                 !.turnPhase = TURN_PHASES.SCORING,
                                 !.isGameActive = FALSE,
                                 !.gameState = GAME_STATES.GAME_OVER]
                        ELSE [game EXCEPT
                                 !.turnPhase = TURN_PHASES.SCORING,
                                 !.roundNumber = @ + 1,
                                 !.pc = "startNewRound"]
    /\ isProcessing' = FALSE
    /\ earlierMatch' = staleDone
    /\ ret' = [op |-> "earlierMatch", pc |-> "battleDelay"]
    /\ UNCHANGED << gridVars, battleQueue, battleResults, battlePc,
                    battleIndex, challengeVars, scoreVars, aiPlayer,
                    stateManager, reentrantPasses, errorHandling, selection >>

NextMatch ==
    \/ initializeGame
    \/ gameInitialized
    \/ destroy
    \/ gameErrorHandled
    \/ staleAITurn
    \/ staleWaitOver
    \/ staleBattleResumes
    \/ startNewRound
    \/ placementStarts
    \/ \E card \in GameCardIds : cardSelected(card)
    \/ \E claimedType \in CARD_TYPES : playConfirmed(claimedType)
    \/ \E card \in GameCardIds, claimedType \in CARD_TYPES :
          aiTurn(card, claimedType)
    \/ humanChallenges
    \/ \E timer \in pendingTimers : challengeWindowExpires(timer)
    \/ pauseGame
    \/ resumeGame
    \/ battlePhaseStarts
    \/ battlePhaseResumes
    \/ startScoringPhase

SpecMatch == InitMatch /\ [][NextMatch]_vars

-----------------------------------------------------------------------------
(* The match: what is claimed of it *)

\* C34: every change of the gameState of the Game, made by initializeGame,
\* pauseGame, resumeGame, endGame or destroy in whatever state they are
\* called, is a transition that the whitelist of GameState allows.
C34_StateChangesWhitelisted ==
    [][game'.gameState # game.gameState =>
          isValidStateTransition(game.gameState, game'.gameState)]_vars

\* initializeGame has been called on a match that was playing, active and
\* not paused: the state went from playing to loading.
C34_Witness ==
    /\ game.gameState = GAME_STATES.LOADING
    /\ game.pc = "initializeGame"
    /\ game.isGameActive
    /\ ~game.isPaused
    /\ earlierMatch.started = 2
    /\ GAME_STATES.LOADING \notin validTransitions[GAME_STATES.PLAYING]

\* C35: in every state of the Game, whatever initializeGame, pauseGame,
\* resumeGame, endGame, error handling and destroy have been called,
\* isPaused is true exactly when gameState is paused.
C35_PausedIffPausedState ==
    game.isPaused <=> (game.gameState = GAME_STATES.PAUSED)

\* A match started while the one before it was paused: it is playing and
\* active, its first round is dealt, and isPaused is still true.
C35_Witness ==
    /\ game.isPaused
    /\ game.isGameActive
    /\ game.gameState = GAME_STATES.PLAYING
    /\ game.turnPhase = TURN_PHASES.PLACEMENT
    /\ earlierMatch.started = 2
    /\ game.roundNumber = 1
    /\ Cardinality(players["human"].hand) = MaxHand

\* The step is the continuation of an earlier match.
StaleStep ==
    /\ earlierMatch.pc # "none"
    /\ earlierMatch'.pc = "none"
    /\ earlierMatch'.started = earlierMatch.started

\* C38: what an earlier match had pending when initializeGame was called
\* again (the delay of the AI, the wait for the challenge window, the delay
\* between two battles) never changes the new match: its phase, current
\* player, round number, hands, grid and scores change through its own
\* turns only.
C38_StaleContinuationsInert ==
    [][StaleStep =>
          /\ game'.turnPhase = game.turnPhase
          /\ game'.currentPlayer = game.currentPlayer
          /\ game'.roundNumber = game.roundNumber
          /\ \A p \in PlayerIds :
                /\ players'[p].hand = players[p].hand
                /\ players'[p].score = players[p].score
          /\ grid' = grid
      ]_vars

\* The delay of the AI of the earlier match has run out in the new match
\* before any move was made in it: the human, who moves first, has lost the
\* turn, and the AI is about to play.
C38_Witness ==
    /\ ret.op = "earlierMatch"
    /\ ret.pc = "aiDelay"
    /\ earlierMatch.started = 2
    /\ game.gameState = GAME_STATES.PLAYING
    /\ game.turnPhase = TURN_PHASES.PLACEMENT
    /\ game.roundNumber = 1
    /\ game.totalMoves = 0
    /\ game.currentPlayer = "ai"
    /\ game.pc = "aiDelay"
    /\ \A p \in PlayerIds : Cardinality(players[p].hand) = MaxHand

-----------------------------------------------------------------------------
(* The battles: the cards that are in no battle *)

\* The cards of the owner of the card at p directly above and below it.
FriendsAboveAndBelow(p) ==
    {q \in Positions :
        /\ q = p - GRID_WIDTH \/ q = p + GRID_WIDTH
        /\ Occupied(q)
        /\ cards[grid[q]].owner = cards[grid[p]].owner}

=============================================================================
